---- MODULE Spec2Model ----
(***************************************************************************)
(* State-machine model of the nvmeof "top" collector                       *)
(* (src/pybind/mgr/dashboard/services/nvmeof_top_cli.py).                  *)
(*                                                                         *)
(* Python floats are modelled as exact rationals [n, d] in lowest terms.   *)
(* Python dicts are modelled as association lists in insertion order,      *)
(* because the views iterate them in that order.  An optional value (None  *)
(* or an object) is a record with a boolean field `some`.                  *)
(***************************************************************************)
EXTENDS Integers, Sequences, FiniteSets, TLC

\* ------------------------------------------------------------------ bounds
\* Cumulative tick counters reported by a gateway range over 0..MaxTick.
MaxTick == 1
\* The wall clock advances by 1..MaxStep between two commands.
MaxStep == 1
\* The wall clock is observed up to MaxTime (caps the number of passes).
MaxTime == 2
\* Standalone Counter: update values range over 0..MaxVal.
MaxVal == 3
\* Standalone Counter: rate intervals range over 0..MaxInterval.
MaxInterval == 3
\* Standalone Counter: number of updates recorded in the history.
MaxUpdates == 3
\* Standalone PerformanceStats: operation counts range over 0..MaxOps.
MaxOps == 2
\* Standalone PerformanceStats: calculate intervals range over 0..MaxDelay.
MaxDelay == 1
\* Standalone PerformanceStats: number of times its counters are fed.
MaxFeeds == 2
\* Commands of a session that polls one gateway for its subsystems.
MaxPasses == 4
\* Client requests of one invocation.
MaxRequests == 2

\* ------------------------------------------------------- program constants
ECONNREFUSED == 111
ENOENT == 2
EINVAL == 22

\* ---------------------------------------------------------------- numbers
Abs(i) == IF i < 0 THEN -i ELSE i

RECURSIVE Gcd(_, _)
Gcd(a, b) == IF b = 0 THEN a ELSE Gcd(b, a % b)

\* The rational n/d (d # 0) in lowest terms with a positive denominator.
Rat(n, d) ==
    LET g == Gcd(Abs(n), Abs(d))
        s == IF d < 0 THEN -1 ELSE 1
    IN  [n |-> (s * n) \div g, d |-> (s * d) \div g]

RInt(i) == [n |-> i, d |-> 1]
RZero == RInt(0)
RAdd(a, b) == Rat(a.n * b.d + b.n * a.d, a.d * b.d)
RSub(a, b) == Rat(a.n * b.d - b.n * a.d, a.d * b.d)
RMul(a, b) == Rat(a.n * b.n, a.d * b.d)
\* Python true division; the caller guards b # 0 where the code does.
RDiv(a, b) == Rat(a.n * b.d, a.d * b.n)
RIsZero(a) == a.n = 0
\* int(x): truncation toward zero.
RTrunc(a) == IF a.n >= 0 THEN a.n \div a.d ELSE -((-a.n) \div a.d)

\* ------------------------------------------------------------------ dicts
\* A dict is a sequence of [k, v] entries in insertion order.
EmptyDict == << >>
Has(d, k) == \E i \in 1..Len(d) : d[i].k = k
Get(d, k) == d[CHOOSE i \in 1..Len(d) : d[i].k = k].v
Put(d, k, v) ==
    IF Has(d, k)
    THEN [i \in 1..Len(d) |-> IF d[i].k = k THEN [k |-> k, v |-> v] ELSE d[i]]
    ELSE Append(d, [k |-> k, v |-> v])

\* ------------------------------------------------------------------ Health
Health(rc, msg) == [rc |-> rc, msg |-> msg]
NewHealth == Health(0, "")

\* ----------------------------------------------------------------- Counter
NewCounter == [current |-> RZero, last |-> RZero]

CounterUpdateNoShift(ctr, new_value) == [current |-> new_value, last |-> ctr.last]

\* Counter.update
CounterUpdate(ctr, new_value) == [current |-> new_value, last |-> ctr.current]

CounterRateNoLast(ctr, interval) ==
    IF RIsZero(interval) THEN RZero ELSE RDiv(ctr.current, interval)

\* Counter.rate
CounterRate(ctr, interval) ==
    IF RIsZero(interval) THEN RZero
    ELSE RDiv(RSub(ctr.current, ctr.last), interval)

\* ------------------------------------------------------------ ReactorStats
NewReactorStats(thread) ==
    [thread |-> thread, busy_secs |-> NewCounter, idle_secs |-> NewCounter,
     busy_rate |-> RZero, idle_rate |-> RZero]

\* ReactorStats.calculate
ReactorCalculate(rs, delay) ==
    [rs EXCEPT !.busy_rate = CounterRate(rs.busy_secs, delay),
               !.idle_rate = CounterRate(rs.idle_secs, delay)]

\* -------------------------------------------------------- PerformanceStats
NewPerformanceStats(bdev) ==
    [bdev |-> bdev,
     read_ops |-> NewCounter, read_bytes |-> NewCounter, read_secs |-> NewCounter,
     write_ops |-> NewCounter, write_bytes |-> NewCounter, write_secs |-> NewCounter,
     read_ops_rate |-> RZero, write_ops_rate |-> RZero,
     read_bytes_rate |-> RZero, write_bytes_rate |-> RZero,
     read_secs_rate |-> RZero, write_secs_rate |-> RZero,
     total_ops_rate |-> RZero,
     rareq_sz |-> RZero, wareq_sz |-> RZero, r_await |-> RZero, w_await |-> RZero]

PerfDerivedKeepsStale(ps, ro, rb, rs, wo, wb, ws) ==
    [ps EXCEPT
       !.read_ops_rate = ro, !.read_bytes_rate = rb, !.read_secs_rate = rs,
       !.write_ops_rate = wo, !.write_bytes_rate = wb, !.write_secs_rate = ws,
       !.total_ops_rate = RAdd(ro, wo),
       !.rareq_sz = IF ~RIsZero(ro)
                    THEN RDiv(RInt(RTrunc(RDiv(rb, ro))), RInt(1024)) ELSE @,
       !.r_await = IF ~RIsZero(ro)
                   THEN RMul(RDiv(rs, ro), RInt(1000)) ELSE @,
       !.wareq_sz = IF ~RIsZero(wo)
                    THEN RDiv(RInt(RTrunc(RDiv(wb, wo))), RInt(1024)) ELSE @,
       !.w_await = IF ~RIsZero(wo)
                   THEN RMul(RDiv(ws, wo), RInt(1000)) ELSE @]

PerfDerivedExactSize(ps, ro, rb, rs, wo, wb, ws) ==
    [ps EXCEPT
       !.read_ops_rate = ro, !.read_bytes_rate = rb, !.read_secs_rate = rs,
       !.write_ops_rate = wo, !.write_bytes_rate = wb, !.write_secs_rate = ws,
       !.total_ops_rate = RAdd(ro, wo),
       !.rareq_sz = IF ~RIsZero(ro)
                    THEN RDiv(RDiv(rb, ro), RInt(1024)) ELSE RZero,
       !.r_await = IF ~RIsZero(ro)
                   THEN RMul(RDiv(rs, ro), RInt(1000)) ELSE RZero,
       !.wareq_sz = IF ~RIsZero(wo)
                    THEN RDiv(RDiv(wb, wo), RInt(1024)) ELSE RZero,
       !.w_await = IF ~RIsZero(wo)
                   THEN RMul(RDiv(ws, wo), RInt(1000)) ELSE RZero]

\* PerformanceStats.calculate once the six rates are taken.
PerfDerived(ps, ro, rb, rs, wo, wb, ws) ==
    [ps EXCEPT
       !.read_ops_rate = ro, !.read_bytes_rate = rb, !.read_secs_rate = rs,
       !.write_ops_rate = wo, !.write_bytes_rate = wb, !.write_secs_rate = ws,
       !.total_ops_rate = RAdd(ro, wo),
       !.rareq_sz = IF ~RIsZero(ro)
                    THEN RDiv(RInt(RTrunc(RDiv(rb, ro))), RInt(1024)) ELSE RZero,
       !.r_await = IF ~RIsZero(ro)
                   THEN RMul(RDiv(rs, ro), RInt(1000)) ELSE RZero,
       !.wareq_sz = IF ~RIsZero(wo)
                    THEN RDiv(RInt(RTrunc(RDiv(wb, wo))), RInt(1024)) ELSE RZero,
       !.w_await = IF ~RIsZero(wo)
                   THEN RMul(RDiv(ws, wo), RInt(1000)) ELSE RZero]

PerfCalculateIgnoresDelay(ps, delay) ==
    PerfDerived(ps, CounterRate(ps.read_ops, RInt(1)), CounterRate(ps.read_bytes, RInt(1)),
                CounterRate(ps.read_secs, RInt(1)), CounterRate(ps.write_ops, RInt(1)),
                CounterRate(ps.write_bytes, RInt(1)), CounterRate(ps.write_secs, RInt(1)))

\* PerformanceStats.calculate
PerfCalculate(ps, delay) ==
    PerfDerived(ps, CounterRate(ps.read_ops, delay), CounterRate(ps.read_bytes, delay),
                CounterRate(ps.read_secs, delay), CounterRate(ps.write_ops, delay),
                CounterRate(ps.write_bytes, delay), CounterRate(ps.write_secs, delay))

\* -------------------------------------------------------------------- text
\* A formatted value is a sequence of one-character strings.
DigitChar(i) ==
    CASE i = 0 -> "0" [] i = 1 -> "1" [] i = 2 -> "2" [] i = 3 -> "3" [] i = 4 -> "4"
      [] i = 5 -> "5" [] i = 6 -> "6" [] i = 7 -> "7" [] i = 8 -> "8" [] OTHER -> "9"

RECURSIVE Digits(_)
Digits(n) == IF n < 10 THEN <<DigitChar(n)>> ELSE Append(Digits(n \div 10), DigitChar(n % 10))

RECURSIVE Pow10(_)
Pow10(k) == IF k = 0 THEN 1 ELSE 10 * Pow10(k - 1)

RECURSIVE ZeroPad(_, _)
ZeroPad(t, width) == IF Len(t) >= width THEN t ELSE ZeroPad(<<"0">> \o t, width)

\* Python's f"{x:.<dec>f}": round half to even at `dec` decimals, keep the sign.
FormatFixed(r, dec) ==
    LET num == Abs(r.n) * Pow10(dec)
        q == num \div r.d
        rem == num % r.d
        m == IF 2 * rem > r.d THEN q + 1
             ELSE IF 2 * rem = r.d THEN q + (q % 2)
             ELSE q
        body == Digits(m \div Pow10(dec)) \o <<".">> \o ZeroPad(Digits(m % Pow10(dec)), dec)
    IN  IF r.n < 0 THEN <<"-">> \o body ELSE body

\* ------------------------------------------------------------ environment
\* Gateway addresses (service URLs) of the fleet.
Gateways == {"gw1", "gw2"}
\* The gateway a client resolves to when no address is given.
DefaultGw == "gw1"
\* The fleet service every client of the model belongs to.
ServiceName == "svc"

\* NVMeoFClient(group, service_url): the handle's attributes.
NewClient(group, service_url) ==
    LET addr == IF service_url = "" THEN DefaultGw ELSE service_url
    IN  [group |-> group, url |-> service_url,
         gateway_addr |-> addr,
         daemon_name |-> "nvmeof." \o addr,
         service_name |-> ServiceName]

None == [some |-> FALSE]
Some(v) == [some |-> TRUE, v |-> v]

\* No exception is in flight.
NoExc == ""

\* --------------------------------------------------------------- collector
\* NvmeofTopCollector.__init__ at wall-clock time `now`.
NewCollector(now) ==
    [tool |-> None,
     subsystem_nqn |-> "",
     server_addr |-> "",
     delay |-> RZero,
     namespaces |-> EmptyDict,
     lbg_to_gateway |-> EmptyDict,
     subsystems |-> None,
     reactor_stats |-> EmptyDict,
     iostats |-> EmptyDict,
     gw_info |-> None,
     client |-> None,
     timestamp |-> now,
     health |-> NewHealth,
     clients |-> EmptyDict]

\* NvmeofTopCollector.ready
Ready(c) == c.health.rc = 0

\* An execution of one command: the collector `c`, the RPCs issued so far
\* (`tr`), the views requested so far (`views`), the health assignments made so
\* far (`hw`) and the exception in flight (`exc`).  The operators below thread
\* an execution through the steps of the code; a step that needs the outcome
\* of a call more than once takes it as a parameter.  `lk` lists the lookups
\* made outside the gateways (service configuration, load-balancing groups),
\* `snap` the collector as it was when each summary view was requested.
NewExec(c) ==
    [c |-> c, tr |-> << >>, views |-> << >>, hw |-> << >>, lk |-> << >>,
     snap |-> << >>, exc |-> NoExc]

\* A call of the lookup named f.
Lookup(x, f) == [x EXCEPT !.lk = Append(@, f)]

SetHealth(x, h) == [x EXCEPT !.c.health = h, !.hw = Append(@, h)]
Raise(x, text) == [x EXCEPT !.exc = text]

\* The RPC numbered e.failAt in a command raises, every other one answers.
RpcAnswers(x, e) == (Len(x.tr) + 1) # e.failAt

CallGrpcKeepsHealth(x, e, method_name, client) ==
    [x |-> [x EXCEPT !.tr = Append(@, [m |-> method_name, gw |-> client.gateway_addr,
                                       ok |-> RpcAnswers(x, e), health |-> x.c.health])],
     ok |-> RpcAnswers(x, e)]

\* NvmeofTopCollector._call_grpc.  Returns the execution and whether a
\* response was returned (None otherwise).
CallGrpc(x, e, method_name, client) ==
    LET h == IF RpcAnswers(x, e)
             THEN Health(x.c.health.rc, method_name \o " success")
             ELSE Health(-ECONNREFUSED,
                         "RPC endpoint unavailable at " \o client.gateway_addr)
    IN  [x |-> [SetHealth(x, h) EXCEPT
                  !.tr = Append(@, [m |-> method_name, gw |-> client.gateway_addr,
                                    ok |-> RpcAnswers(x, e), health |-> h])],
         ok |-> RpcAnswers(x, e)]

GetClientAlwaysNew(x, e, group, service_url) ==
    IF e.ctorRaises
    THEN [x |-> Raise(x, "client error"), cl |-> NewClient(group, service_url)]
    ELSE [x |-> [x EXCEPT !.c.clients =
                     Put(@, <<group, service_url>>,
                         [id |-> Len(x.c.clients) + 1,
                          cl |-> NewClient(group, service_url)])],
          cl |-> NewClient(group, service_url)]

\* NvmeofTopCollector._get_client: a cached handle, or a new one whose
\* construction may raise.  A handle carries the rank of its creation (`id`).
GetClient(x, e, group, service_url) ==
    IF Has(x.c.clients, <<group, service_url>>)
    THEN [x |-> x, cl |-> Get(x.c.clients, <<group, service_url>>).cl]
    ELSE IF e.ctorRaises
    THEN [x |-> Raise(x, "client error"), cl |-> NewClient(group, service_url)]
    ELSE [x |-> [x EXCEPT !.c.clients =
                     Put(@, <<group, service_url>>,
                         [id |-> Len(x.c.clients) + 1,
                          cl |-> NewClient(group, service_url)])],
          cl |-> NewClient(group, service_url)]

\* get_gateway_info(): the gateway's own load-balancing group.
GwInfo(addr) == [load_balancing_group |-> IF addr = "gw1" THEN 1 ELSE 2]

\* ------------------------------------------------------------- cpu fetches
ThreadEntryFresh(x, gateway_addr, name) ==
    [x EXCEPT !.c.reactor_stats =
       Put(@, gateway_addr, Put(Get(@, gateway_addr), name, NewReactorStats(name)))]

\* `if name not in self.reactor_stats[gateway_addr]: ... = ReactorStats(name)`
ThreadEntry(x, gateway_addr, name) ==
    IF Has(Get(x.c.reactor_stats, gateway_addr), name) THEN x
    ELSE [x EXCEPT !.c.reactor_stats =
            Put(@, gateway_addr, Put(Get(@, gateway_addr), name, NewReactorStats(name)))]

\* The two updates of a thread's entry.
UpdateThread(x, gateway_addr, thread, tick_rate) ==
    [x EXCEPT !.c.reactor_stats =
       Put(@, gateway_addr,
           Put(Get(@, gateway_addr), thread.name,
               [Get(Get(x.c.reactor_stats, gateway_addr), thread.name) EXCEPT
                  !.busy_secs = CounterUpdate(@, Rat(thread.busy, tick_rate)),
                  !.idle_secs = CounterUpdate(@, Rat(thread.idle, tick_rate))]))]

\* The loop of _fetch_thread_stats, from the i-th reported thread on.  A tick
\* rate of zero raises ZeroDivisionError at the first division, after the
\* thread's entry was created.
RECURSIVE FoldThreads(_, _, _, _)
FoldThreads(x, gateway_addr, stats, i) ==
    IF i > Len(stats.threads) THEN x
    ELSE IF stats.tick_rate = 0
    THEN Raise(ThreadEntry(x, gateway_addr, stats.threads[i].name), "division by zero")
    ELSE FoldThreads(
           UpdateThread(ThreadEntry(x, gateway_addr, stats.threads[i].name),
                        gateway_addr, stats.threads[i], stats.tick_rate),
           gateway_addr, stats, i + 1)

\* _fetch_thread_stats after its RPC returned r.
ThreadStatsFetched(r, e, gateway_addr) ==
    IF ~r.ok THEN r.x
    ELSE FoldThreads(IF Has(r.x.c.reactor_stats, gateway_addr) THEN r.x
                     ELSE [r.x EXCEPT !.c.reactor_stats = Put(@, gateway_addr, EmptyDict)],
                     gateway_addr, e.threads[gateway_addr], 1)

\* NvmeofTopCollector._fetch_thread_stats
FetchThreadStats(x, e, client) ==
    ThreadStatsFetched(CallGrpc(x, e, "get_thread_stats", client), e, client.gateway_addr)

InitialiseCheckedNoRewrite(x3) ==
    x3

\* The end of initialise: `if not self.ready: self.health.msg = ...`.
InitialiseChecked(x3) ==
    IF ~Ready(x3.c)
    THEN SetHealth(x3, Health(x3.c.health.rc,
                              "Unable to connect to " \o x3.c.server_addr
                              \o ", pass an available gateway as --server-addr"))
    ELSE x3

\* initialise after _fetch_gateway_info returned r.
InitialiseInfo(r, cl) ==
    InitialiseChecked([r.x EXCEPT !.c.gw_info =
                         IF r.ok THEN Some(GwInfo(cl.gateway_addr)) ELSE None])

\* initialise after _get_client returned g.
InitialiseClient(g, e, now) ==
    IF g.x.exc # NoExc THEN g.x
    ELSE InitialiseInfo(
           CallGrpc([g.x EXCEPT !.c.client = Some(g.cl),
                                !.c.server_addr = g.cl.gateway_addr,
                                !.c.delay = RInt(now - g.x.c.timestamp),
                                !.c.timestamp = now],
                    e, "get_gateway_info", g.cl),
           g.cl)

InitialiseKeepsHealth(x, e, tool, now) ==
    InitialiseClient(
      GetClient([x EXCEPT !.c.tool = Some(tool)],
                e, tool.args.group, tool.args.server_addr),
      e, now)

\* NvmeofTopCollector.initialise
Initialise(x, e, tool, now) ==
    InitialiseClient(
      GetClient([x EXCEPT !.c.health = NewHealth, !.c.tool = Some(tool)],
                e, tool.args.group, tool.args.server_addr),
      e, now)

RECURSIVE CpuLoop(_, _, _, _, _)

CpuLoopCheckedNoBreak(x1, e, group, gws, i) ==
    IF x1.exc # NoExc THEN x1
    ELSE CpuLoop(x1, e, group, gws, i + 1)

\* The loop body of collect_cpu_data after _fetch_thread_stats left x1.
CpuLoopChecked(x1, e, group, gws, i) ==
    IF x1.exc # NoExc THEN x1
    ELSE IF ~Ready(x1.c) THEN x1
    ELSE CpuLoop(x1, e, group, gws, i + 1)

\* The loop body of collect_cpu_data after _get_client returned g.
CpuLoopClient(g, e, group, gws, i) ==
    IF g.x.exc # NoExc THEN g.x
    ELSE CpuLoopChecked(FetchThreadStats(g.x, e, g.cl), e, group, gws, i)

\* The for-loop of collect_cpu_data over gateways[service_name], from the
\* i-th member on.
CpuLoop(x, e, group, gws, i) ==
    IF i > Len(gws) THEN x
    ELSE CpuLoopClient(GetClient(x, e, group, gws[i]), e, group, gws, i)

CollectCpuDataMissingAsEmpty(x, e) ==
    IF x.c.tool.v.service_name # ""
    THEN CpuLoop(Lookup(x, "get_gateways_config"), e, x.c.tool.v.args.group,
                 IF Has(e.gwconf, x.c.tool.v.service_name)
                 THEN Get(e.gwconf, x.c.tool.v.service_name) ELSE << >>, 1)
    ELSE FetchThreadStats(x, e, x.c.client.v)

\* NvmeofTopCollector.collect_cpu_data
CollectCpuData(x, e) ==
    IF x.c.tool.v.service_name # ""
    THEN IF ~Has(e.gwconf, x.c.tool.v.service_name)
         THEN SetHealth(Lookup(x, "get_gateways_config"),
                        Health(-ENOENT,
                               "Service " \o x.c.tool.v.service_name \o " not found"))
         ELSE CpuLoop(Lookup(x, "get_gateways_config"), e, x.c.tool.v.args.group,
                      Get(e.gwconf, x.c.tool.v.service_name), 1)
    ELSE FetchThreadStats(x, e, x.c.client.v)

\* ------------------------------------------------------------------ sorting
\* Code points of the characters that occur in row fields.
CharOrd(ch) ==
    CASE ch = "-" -> 45 [] ch = "." -> 46 [] ch = "/" -> 47
      [] ch = "0" -> 48 [] ch = "1" -> 49 [] ch = "2" -> 50 [] ch = "3" -> 51
      [] ch = "4" -> 52 [] ch = "5" -> 53 [] ch = "6" -> 54 [] ch = "7" -> 55
      [] ch = "8" -> 56 [] ch = "9" -> 57
      [] ch = "A" -> 65 [] ch = "N" -> 78 [] ch = "Y" -> 89 [] ch = "_" -> 95
      [] ch = "a" -> 97 [] ch = "b" -> 98 [] ch = "c" -> 99 [] ch = "e" -> 101
      [] ch = "g" -> 103 [] ch = "i" -> 105 [] ch = "m" -> 109 [] ch = "o" -> 111
      [] ch = "p" -> 112 [] ch = "r" -> 114 [] ch = "s" -> 115 [] ch = "t" -> 116
      [] ch = "w" -> 119 [] OTHER -> 0

\* The characters of the strings that occur in row fields.
StrChars(str) ==
    CASE str = "gw1" -> <<"g", "w", "1">>
      [] str = "gw2" -> <<"g", "w", "2">>
      [] str = "reactor_0" -> <<"r", "e", "a", "c", "t", "o", "r", "_", "0">>
      [] str = "reactor_1" -> <<"r", "e", "a", "c", "t", "o", "r", "_", "1">>
      [] str = "rbd/img1" -> <<"r", "b", "d", "/", "i", "m", "g", "1">>
      [] str = "rbd/img2" -> <<"r", "b", "d", "/", "i", "m", "g", "2">>
      [] str = "rbd/img3" -> <<"r", "b", "d", "/", "i", "m", "g", "3">>
      [] str = "N/A" -> <<"N", "/", "A">>
      [] str = "1" -> <<"1">>
      [] str = "2" -> <<"2">>
      [] str = "Yes" -> <<"Y", "e", "s">>
      [] str = "No" -> <<"N", "o">>
      [] OTHER -> << >>

\* Python's str < str on character sequences.
RECURSIVE TextLess(_, _)
TextLess(a, b) ==
    IF Len(b) = 0 THEN FALSE
    ELSE IF Len(a) = 0 THEN TRUE
    ELSE IF CharOrd(Head(a)) # CharOrd(Head(b)) THEN CharOrd(Head(a)) < CharOrd(Head(b))
    ELSE TextLess(Tail(a), Tail(b))

\* a < b for two values of one column; kind is "int", "str" or "text".
KeyLess(kind, a, b) ==
    CASE kind = "int" -> a < b
      [] kind = "str" -> TextLess(StrChars(a), StrChars(b))
      [] OTHER -> TextLess(a, b)

\* One step of a stable sort: `row` goes after every row already placed that
\* does not have to follow it.
RECURSIVE InsertRow(_, _, _, _, _)
InsertRow(sorted, row, kind, pos, reverse) ==
    IF Len(sorted) = 0 THEN <<row>>
    ELSE
      LET last == sorted[Len(sorted)]
          after == IF reverse THEN KeyLess(kind, last[pos], row[pos])
                   ELSE KeyLess(kind, row[pos], last[pos])
      IN  IF after
          THEN Append(InsertRow(SubSeq(sorted, 1, Len(sorted) - 1), row, kind, pos, reverse),
                      last)
          ELSE Append(sorted, row)

RECURSIVE SortFrom(_, _, _, _, _, _)
SortFrom(sorted, rows, i, kind, pos, reverse) ==
    IF i > Len(rows) THEN sorted
    ELSE SortFrom(InsertRow(sorted, rows[i], kind, pos, reverse), rows, i + 1,
                  kind, pos, reverse)

ReverseSeq(seq) == [i \in 1..Len(seq) |-> seq[Len(seq) + 1 - i]]
SortRowsThenReverse(rows, kind, sort_pos, reverse_sort) ==
    IF reverse_sort
    THEN ReverseSeq(SortFrom(<< >>, rows, 1, kind, sort_pos + 1, FALSE))
    ELSE SortFrom(<< >>, rows, 1, kind, sort_pos + 1, FALSE)

\* list.sort(key=lambda t: t[sort_pos], reverse=reverse_sort); sort_pos counts
\* from 0.
SortRows(rows, kind, sort_pos, reverse_sort) ==
    SortFrom(<< >>, rows, 1, kind, sort_pos + 1, reverse_sort)

\* Position (from 0) of `key` in `headers`; -1 when absent.
IndexOf(headers, key) ==
    IF \E i \in 1..Len(headers) : headers[i] = key
    THEN (CHOOSE i \in 1..Len(headers) :
            headers[i] = key /\ \A j \in 1..(i - 1) : headers[j] # key) - 1
    ELSE -1

\* ------------------------------------------------------------------- views
reactors_headers == <<"Gateway", "Thread Name", "Busy Rate%", "Idle Rate%">>
ReactorColKind(sort_pos) == IF sort_pos <= 1 THEN "str" ELSE "text"

\* The row of a thread whose rates were just calculated.
ReactorRow(gw_addr, ts) ==
    <<gw_addr, ts.thread,
      FormatFixed(RMul(ts.busy_rate, RInt(100)), 2),
      FormatFixed(RMul(ts.idle_rate, RInt(100)), 2)>>

RECURSIVE ReactorRows(_, _, _, _)

\* The loop body of get_reactor_data once thread_stats.calculate gave ts: the
\* rates are stored and one row is emitted.
ReactorRowsAdd(x, gi, ti, rows, ts) ==
    ReactorRows([x EXCEPT !.c.reactor_stats[gi].v[ti].v = ts], gi, ti + 1,
                Append(rows, ReactorRow(x.c.reactor_stats[gi].k, ts)))

\* The nested loops of get_reactor_data from gateway entry gi, thread entry ti.
ReactorRows(x, gi, ti, rows) ==
    IF gi > Len(x.c.reactor_stats) THEN [x |-> x, rows |-> rows]
    ELSE IF ti > Len(x.c.reactor_stats[gi].v) THEN ReactorRows(x, gi + 1, 1, rows)
    ELSE ReactorRowsAdd(x, gi, ti, rows,
                        ReactorCalculate(x.c.reactor_stats[gi].v[ti].v, x.c.delay))

\* get_reactor_data once the rows r were collected: the sort.
ReactorDataSorted(r, sort_pos, reverse_sort) ==
    [x |-> r.x,
     rows |-> SortRows(r.rows, ReactorColKind(sort_pos), sort_pos, reverse_sort)]

\* NvmeofTopCollector.get_reactor_data
GetReactorData(x, sort_pos, reverse_sort) ==
    ReactorDataSorted(
      ReactorRows([x EXCEPT !.views = Append(@, "get_reactor_data")], 1, 1, << >>),
      sort_pos, reverse_sort)

\* A row of rendered lines; the rendered text is a sequence of lines.
RowLines(rows) == [i \in 1..Len(rows) |-> [kind |-> "row", cols |-> rows[i]]]

\* str(ValueError) of an unknown sort key.
InvalidSortKey(sort_key, headers_text) ==
    "Invalid sort key '" \o sort_key \o "'. Valid options: " \o headers_text

CpuRenderedNeedsRows(r, tool) ==
    IF r.rows = << >> THEN [x |-> Raise(r.x, "no reactor data"), lines |-> << >>]
    ELSE [x |-> r.x,
          lines |-> (IF ~tool.args.no_header
                     THEN <<[kind |-> "row", cols |-> reactors_headers]>> ELSE << >>)
                    \o RowLines(r.rows) \o <<[kind |-> "blank"]>>]

\* format_output of the cpu tool once get_reactor_data returned r.
CpuRendered(r, tool) ==
    [x |-> r.x,
     lines |-> (IF tool.args.with_timestamp
                THEN <<[kind |-> "timestamp", timestamp |-> r.x.c.timestamp,
                        delay |-> FormatFixed(r.x.c.delay, 2)]>>
                ELSE << >>)
               \o (IF ~tool.args.no_header
                   THEN <<[kind |-> "row", cols |-> reactors_headers]>> ELSE << >>)
               \o RowLines(r.rows) \o <<[kind |-> "blank"]>>]

\* NVMeoFTopCPU.format_output
CpuFormatOutput(x, tool) ==
    IF IndexOf(reactors_headers, tool.sort_key) < 0
    THEN [x |-> Raise(x, InvalidSortKey(tool.sort_key,
                   "['Gateway', 'Thread Name', 'Busy Rate%', 'Idle Rate%']")),
          lines |-> << >>]
    ELSE CpuRendered(GetReactorData(x, IndexOf(reactors_headers, tool.sort_key),
                                    tool.reverse_sort),
                     tool)

\* -------------------------------------------------------------- io fetches
\* get_lbg_gws_map: the pool/group lookup, then the monitor's "nvme-gw show";
\* every failure yields the empty mapping.  `src` is what the lookups answer.
RECURSIVE LbgFold(_, _, _)
LbgFold(created, i, map) ==
    IF i > Len(created) THEN map
    ELSE LbgFold(created, i + 1, Put(map, created[i].anagrp_id, created[i].gw_id))

GetLbgGwsMap(src) ==
    IF ~src.pool_group THEN EmptyDict
    ELSE IF src.raises THEN EmptyDict
    ELSE IF src.ret_status = 0 /\ src.out THEN LbgFold(src.created, 1, EmptyDict)
    ELSE EmptyDict

\* `if bdev_name not in self.iostats[daemon_name]: ... = PerformanceStats(bdev_name)`
IostatEntry(x, daemon_name, bdev_name) ==
    IF Has(Get(x.c.iostats, daemon_name), bdev_name) THEN x
    ELSE [x EXCEPT !.c.iostats =
            Put(@, daemon_name,
                Put(Get(@, daemon_name), bdev_name, NewPerformanceStats(bdev_name)))]

\* The entry of a namespace device after its stats were replaced by st.
SetIostat(x, daemon_name, bdev_name, st) ==
    [x EXCEPT !.c.iostats = Put(@, daemon_name, Put(Get(@, daemon_name), bdev_name, st))]

\* The two updates that precede the first division by tick_rate.
UpdateReadCounts(x, daemon_name, ns) ==
    SetIostat(x, daemon_name, ns.bdev_name,
              [Get(Get(x.c.iostats, daemon_name), ns.bdev_name) EXCEPT
                 !.read_ops = CounterUpdate(@, RInt(ns.num_read_ops)),
                 !.read_bytes = CounterUpdate(@, RInt(ns.bytes_read))])

\* The four updates from the first division by tick_rate on.
UpdateRest(x, daemon_name, ns, tick_rate) ==
    SetIostat(x, daemon_name, ns.bdev_name,
              [Get(Get(x.c.iostats, daemon_name), ns.bdev_name) EXCEPT
                 !.read_secs = CounterUpdate(@, Rat(ns.read_latency_ticks, tick_rate)),
                 !.write_ops = CounterUpdate(@, RInt(ns.num_write_ops)),
                 !.write_bytes = CounterUpdate(@, RInt(ns.bytes_written)),
                 !.write_secs = CounterUpdate(@, Rat(ns.write_latency_ticks, tick_rate))])

RECURSIVE FoldIostats(_, _, _, _)

\* The loop body of _fetch_namespace_iostats once read_ops and read_bytes were
\* updated (x2): a tick rate of zero raises ZeroDivisionError here.
FoldIostatsRest(x2, daemon_name, stats, i) ==
    IF stats.tick_rate = 0 THEN Raise(x2, "division by zero")
    ELSE FoldIostats(UpdateRest(x2, daemon_name, stats.namespaces[i], stats.tick_rate),
                     daemon_name, stats, i + 1)

\* The loop of _fetch_namespace_iostats, from the i-th reported namespace on.
FoldIostats(x, daemon_name, stats, i) ==
    IF i > Len(stats.namespaces) THEN x
    ELSE FoldIostatsRest(
           UpdateReadCounts(IostatEntry(x, daemon_name, stats.namespaces[i].bdev_name),
                            daemon_name, stats.namespaces[i]),
           daemon_name, stats, i)

\* _fetch_namespace_iostats after its RPC returned r.
IostatsFetched(r, e, client) ==
    IF ~r.ok THEN r.x
    ELSE FoldIostats(IF Has(r.x.c.iostats, client.daemon_name) THEN r.x
                     ELSE [r.x EXCEPT !.c.iostats = Put(@, client.daemon_name, EmptyDict)],
                     client.daemon_name, e.io[client.gateway_addr], 1)

\* NvmeofTopCollector._fetch_namespace_iostats
FetchNamespaceIostats(x, e, client) ==
    IostatsFetched(CallGrpc(x, e, "list_namespaces_io_stats", client), e, client)

\* NvmeofTopCollector.nqn_list
NqnList(c) ==
    [i \in 1..Len(c.subsystems.v.subsystems) |-> c.subsystems.v.subsystems[i].nqn]

InSeq(seq, v) == \E i \in 1..Len(seq) : seq[i] = v

\* _set_subsystem_and_namespaces after _fetch_namespaces returned r2.
NamespacesFetched(r2, e) ==
    IF ~r2.ok THEN r2.x
    ELSE [r2.x EXCEPT !.c.namespaces = Put(@, r2.x.c.subsystem_nqn, e.namespaces)]

SubsystemsCheckedNoEmpty(x1, e) ==
    IF ~x1.c.subsystems.some \/ x1.c.subsystems.v.status > 0
    THEN SetHealth(x1, Health(-ECONNREFUSED, "Unable to retrieve a list of subsystems"))
    ELSE IF x1.c.subsystem_nqn # "" /\ ~InSeq(NqnList(x1.c), x1.c.subsystem_nqn)
    THEN SetHealth(x1, Health(-ENOENT, "Subsystem NQN provided not found"))
    ELSE NamespacesFetched(CallGrpc(x1, e, "list_namespaces", x1.c.client.v), e)

SubsystemsCheckedKeepsRpcHealth(x1, e) ==
    IF ~x1.c.subsystems.some THEN x1
    ELSE IF x1.c.subsystems.v.status > 0
    THEN SetHealth(x1, Health(-ECONNREFUSED, "Unable to retrieve a list of subsystems"))
    ELSE IF Len(x1.c.subsystems.v.subsystems) = 0
    THEN SetHealth(x1, Health(-ENOENT, "No subsystems found"))
    ELSE IF x1.c.subsystem_nqn # "" /\ ~InSeq(NqnList(x1.c), x1.c.subsystem_nqn)
    THEN SetHealth(x1, Health(-ENOENT, "Subsystem NQN provided not found"))
    ELSE NamespacesFetched(CallGrpc(x1, e, "list_namespaces", x1.c.client.v), e)

SubsystemsCheckedAnyNqn(x1, e) ==
    IF ~x1.c.subsystems.some \/ x1.c.subsystems.v.status > 0
    THEN SetHealth(x1, Health(-ECONNREFUSED, "Unable to retrieve a list of subsystems"))
    ELSE IF Len(x1.c.subsystems.v.subsystems) = 0
    THEN SetHealth(x1, Health(-ENOENT, "No subsystems found"))
    ELSE NamespacesFetched(CallGrpc(x1, e, "list_namespaces", x1.c.client.v), e)

\* _set_subsystem_and_namespaces once self.subsystems was assigned (x1).
SubsystemsChecked(x1, e) ==
    IF ~x1.c.subsystems.some \/ x1.c.subsystems.v.status > 0
    THEN SetHealth(x1, Health(-ECONNREFUSED, "Unable to retrieve a list of subsystems"))
    ELSE IF Len(x1.c.subsystems.v.subsystems) = 0
    THEN SetHealth(x1, Health(-ENOENT, "No subsystems found"))
    ELSE IF x1.c.subsystem_nqn # "" /\ ~InSeq(NqnList(x1.c), x1.c.subsystem_nqn)
    THEN SetHealth(x1, Health(-ENOENT, "Subsystem NQN provided not found"))
    ELSE NamespacesFetched(CallGrpc(x1, e, "list_namespaces", x1.c.client.v), e)

\* _set_subsystem_and_namespaces after _fetch_subsystems returned r.
SubsystemsFetched(r, e) ==
    SubsystemsChecked(
      [r.x EXCEPT !.c.subsystems = IF r.ok THEN Some(e.subsystems) ELSE None], e)

SetSubsystemAndNamespacesNoCache(x, e) ==
    SubsystemsFetched(CallGrpc(x, e, "list_subsystems", x.c.client.v), e)

\* NvmeofTopCollector._set_subsystem_and_namespaces
SetSubsystemAndNamespaces(x, e) ==
    IF x.c.subsystems.some /\ Has(x.c.namespaces, x.c.subsystem_nqn) THEN x
    ELSE SubsystemsFetched(CallGrpc(x, e, "list_subsystems", x.c.client.v), e)

RECURSIVE IoLoop(_, _, _, _, _)

IoLoopCheckedNoBreak(x1, e, group, gws, i) ==
    IF x1.exc # NoExc THEN x1
    ELSE IoLoop(x1, e, group, gws, i + 1)

\* The loop body of collect_io_data after _fetch_namespace_iostats left x1.
IoLoopChecked(x1, e, group, gws, i) ==
    IF x1.exc # NoExc THEN x1
    ELSE IF ~Ready(x1.c) THEN x1
    ELSE IoLoop(x1, e, group, gws, i + 1)

\* The loop body of collect_io_data after _get_client returned g.
IoLoopClient(g, e, group, gws, i) ==
    IF g.x.exc # NoExc THEN g.x
    ELSE IoLoopChecked(FetchNamespaceIostats(g.x, e, g.cl), e, group, gws, i)

\* The for-loop of collect_io_data over gateways[service_name], from the i-th
\* member on.
IoLoop(x, e, group, gws, i) ==
    IF i > Len(gws) THEN x
    ELSE IoLoopClient(GetClient(x, e, group, gws[i]), e, group, gws, i)

CollectIoFleetNoCheck(x2, e, service_name) ==
    IoLoop(x2, e, x2.c.tool.v.args.group, Get(e.gwconf, service_name), 1)

\* The fleet branch of collect_io_data once lbg_to_gateway was assigned (x2).
CollectIoFleet(x2, e, service_name) ==
    IF Len(x2.c.lbg_to_gateway) = 0
    THEN SetHealth(x2, Health(-ENOENT,
             "Failed to retrieve load balancing group mapping for service "
             \o service_name))
    ELSE IoLoop(x2, e, x2.c.tool.v.args.group, Get(e.gwconf, service_name), 1)

\* collect_io_data after _set_subsystem_and_namespaces left x1.
CollectIoStats(x1, e) ==
    IF ~Ready(x1.c) THEN x1
    ELSE IF x1.c.tool.v.args.server_addr = ""
    THEN IF ~Has(e.gwconf, x1.c.client.v.service_name)
         THEN SetHealth(Lookup(x1, "get_gateways_config"),
                        Health(-ENOENT,
                               "Service " \o x1.c.client.v.service_name \o " not found"))
         ELSE CollectIoFleet(
                [Lookup(Lookup(x1, "get_gateways_config"), "get_lbg_gws_map")
                   EXCEPT !.c.lbg_to_gateway = GetLbgGwsMap(e.lbg)],
                e, x1.c.client.v.service_name)
    ELSE FetchNamespaceIostats(x1, e, x1.c.client.v)

\* NvmeofTopCollector.collect_io_data
CollectIoData(x, e) ==
    CollectIoStats(
      SetSubsystemAndNamespaces([x EXCEPT !.c.subsystem_nqn = x.c.tool.v.subsystem_nqn], e),
      e)

\* ---------------------------------------------------------------- io views
ns_headers == <<"NSID", "RBD Image", "IOPS", "r/s", "rMB/s", "r_await", "rareq-sz",
                "w/s", "wMB/s", "w_await", "wareq-sz", "LBGrp", "QoS">>
NsColKind(sort_pos) ==
    IF sort_pos \in {0, 2, 3, 7} THEN "int"
    ELSE IF sort_pos \in {1, 11, 12} THEN "str"
    ELSE "text"

\* NvmeofTopCollector.qos_enabled
QosEnabled(ns) ==
    IF ns.rw_ios_per_second # 0 \/ ns.rw_mbytes_per_second # 0
       \/ ns.r_mbytes_per_second # 0 \/ ns.w_mbytes_per_second # 0
    THEN "Yes" ELSE "No"

\* str(n) for the small naturals that occur as group ids.
IntStr(n) == CASE n = 0 -> "0" [] n = 1 -> "1" [] n = 2 -> "2" [] OTHER -> "3"

\* NvmeofTopCollector.lb_group
LbGroup(grp_id) == IF grp_id = 0 THEN "N/A" ELSE IntStr(grp_id)

\* NvmeofTopCollector.bytes_to_MB
BytesToMB(num_bytes) == RDiv(RDiv(num_bytes, RInt(1024)), RInt(1024))

\* The row of a namespace whose rates were just calculated (ps).
NamespaceRow(ns, ps) ==
    <<ns.nsid,
      ns.rbd_pool_name \o "/" \o ns.rbd_image_name,
      RTrunc(ps.total_ops_rate),
      RTrunc(ps.read_ops_rate),
      FormatFixed(BytesToMB(ps.read_bytes_rate), 2),
      FormatFixed(ps.r_await, 2),
      FormatFixed(ps.rareq_sz, 2),
      RTrunc(ps.write_ops_rate),
      FormatFixed(BytesToMB(ps.write_bytes_rate), 2),
      FormatFixed(ps.w_await, 2),
      FormatFixed(ps.wareq_sz, 2),
      LbGroup(ns.load_balancing_group),
      QosEnabled(ns)>>

RECURSIVE NamespaceRows(_, _, _, _)

NamespaceRowsAddResetsDelay(x, nss, i, rows, daemon_name, ps) ==
    NamespaceRows([SetIostat(x, daemon_name, nss[i].bdev_name, ps) EXCEPT !.c.delay = RZero],
                  nss, i + 1, Append(rows, NamespaceRow(nss[i], ps)))

\* The loop body of get_sorted_namespaces once perf_stats.calculate gave ps:
\* the rates are stored and one row is emitted.
NamespaceRowsAdd(x, nss, i, rows, daemon_name, ps) ==
    NamespaceRows(SetIostat(x, daemon_name, nss[i].bdev_name, ps), nss, i + 1,
                  Append(rows, NamespaceRow(nss[i], ps)))

NamespaceRowsOfRaises(x, nss, i, rows, daemon_name) ==
    IF daemon_name = ""
    THEN [x |-> Raise(x, "no gateway for load balancing group"), rows |-> rows]
    ELSE IF ~(/\ Has(x.c.iostats, daemon_name)
              /\ Has(Get(x.c.iostats, daemon_name), nss[i].bdev_name))
    THEN NamespaceRows(x, nss, i + 1, rows)
    ELSE NamespaceRowsAdd(x, nss, i, rows, daemon_name,
                          PerfCalculate(Get(Get(x.c.iostats, daemon_name),
                                            nss[i].bdev_name),
                                        x.c.delay))

\* The loop body of get_sorted_namespaces once daemon_name is chosen.
NamespaceRowsOf(x, nss, i, rows, daemon_name) ==
    IF daemon_name = "" THEN NamespaceRows(x, nss, i + 1, rows)
    ELSE IF ~(/\ Has(x.c.iostats, daemon_name)
              /\ Has(Get(x.c.iostats, daemon_name), nss[i].bdev_name))
    THEN NamespaceRows(x, nss, i + 1, rows)
    ELSE NamespaceRowsAdd(x, nss, i, rows, daemon_name,
                          PerfCalculate(Get(Get(x.c.iostats, daemon_name),
                                            nss[i].bdev_name),
                                        x.c.delay))

NamespaceRowsAlwaysLookup(x, nss, i, rows) ==
    IF i > Len(nss) THEN [x |-> x, rows |-> rows]
    ELSE NamespaceRowsOf(x, nss, i, rows,
                         IF Has(x.c.lbg_to_gateway, nss[i].load_balancing_group)
                         THEN Get(x.c.lbg_to_gateway, nss[i].load_balancing_group)
                         ELSE "")

\* The loop of get_sorted_namespaces from the i-th namespace of the active
\* subsystem on.
NamespaceRows(x, nss, i, rows) ==
    IF i > Len(nss) THEN [x |-> x, rows |-> rows]
    ELSE IF x.c.tool.v.args.server_addr # ""
    THEN IF nss[i].load_balancing_group # x.c.gw_info.v.load_balancing_group
         THEN NamespaceRows(x, nss, i + 1, rows)
         ELSE NamespaceRowsOf(x, nss, i, rows, x.c.client.v.daemon_name)
    ELSE NamespaceRowsOf(x, nss, i, rows,
                         IF Has(x.c.lbg_to_gateway, nss[i].load_balancing_group)
                         THEN Get(x.c.lbg_to_gateway, nss[i].load_balancing_group)
                         ELSE "")

\* get_sorted_namespaces once the rows r were collected: the sort.
NamespacesSorted(r, sort_pos, reverse_sort) ==
    [x |-> r.x,
     rows |-> SortRows(r.rows, NsColKind(sort_pos), sort_pos, reverse_sort)]

\* NvmeofTopCollector.get_sorted_namespaces; an unknown active subsystem is a
\* KeyError.
GetSortedNamespaces(x, sort_pos, reverse_sort) ==
    IF ~Has(x.c.namespaces, x.c.subsystem_nqn)
    THEN [x |-> Raise([x EXCEPT !.views = Append(@, "get_sorted_namespaces")],
                      "'" \o x.c.subsystem_nqn \o "'"),
          rows |-> << >>]
    ELSE NamespacesSorted(
           NamespaceRows([x EXCEPT !.views = Append(@, "get_sorted_namespaces")],
                         Get(x.c.namespaces, x.c.subsystem_nqn), 1, << >>),
           sort_pos, reverse_sort)

\* NvmeofTopCollector.max_namespaces
MaxNamespaces(c) ==
    IF \E i \in 1..Len(c.subsystems.v.subsystems) :
         c.subsystems.v.subsystems[i].nqn = c.subsystem_nqn
    THEN c.subsystems.v.subsystems[
           CHOOSE i \in 1..Len(c.subsystems.v.subsystems) :
             /\ c.subsystems.v.subsystems[i].nqn = c.subsystem_nqn
             /\ \A j \in 1..(i - 1) :
                  c.subsystems.v.subsystems[j].nqn # c.subsystem_nqn].max_namespaces
    ELSE 0

\* NvmeofTopCollector.get_subsystem_summary_data: [nqn, "defined / max"].
GetSubsystemSummaryData(x) ==
    [x |-> [x EXCEPT !.views = Append(@, "get_subsystem_summary_data"),
                     !.snap = Append(@, x.c)],
     data |-> <<x.c.subsystem_nqn,
                <<Len(Get(x.c.namespaces, x.c.subsystem_nqn)), "/", MaxNamespaces(x.c)>> >>]

RECURSIVE SumNamespaceCount(_, _)
SumNamespaceCount(subs, i) ==
    IF i > Len(subs) THEN 0 ELSE subs[i].namespace_count + SumNamespaceCount(subs, i + 1)

GetOverallSummaryDataResetsHealth(x) ==
    [x |-> [x EXCEPT !.views = Append(@, "get_overall_summary_data"),
                     !.snap = Append(@, x.c),
                     !.c.health = NewHealth],
     data |-> <<x.c.server_addr,
                x.c.gw_info.v.load_balancing_group,
                Len(NqnList(x.c)),
                SumNamespaceCount(x.c.subsystems.v.subsystems, 1)>>]

\* NvmeofTopCollector.get_overall_summary_data
GetOverallSummaryData(x) ==
    [x |-> [x EXCEPT !.views = Append(@, "get_overall_summary_data"),
                     !.snap = Append(@, x.c)],
     data |-> <<x.c.server_addr,
                x.c.gw_info.v.load_balancing_group,
                Len(NqnList(x.c)),
                SumNamespaceCount(x.c.subsystems.v.subsystems, 1)>>]

\* format_output of the io tool once the three views were requested: ns_data
\* (rows), the subsystem summary s1 and the overall summary s2.
IoRendered(rows, s1, s2, tool) ==
    [x |-> s2.x,
     lines |-> (IF tool.args.with_timestamp
                THEN <<[kind |-> "timestamp", timestamp |-> s2.x.c.timestamp,
                        delay |-> FormatFixed(s2.x.c.delay, 2)]>>
                ELSE << >>)
               \o (IF tool.args.summary
                   THEN (IF tool.args.server_addr # ""
                         THEN <<[kind |-> "summary", data |-> s2.data]>> ELSE << >>)
                        \o <<[kind |-> "subsystem_summary", data |-> s1.data]>>
                   ELSE << >>)
               \o (IF ~tool.args.no_header
                   THEN <<[kind |-> "row", cols |-> ns_headers]>> ELSE << >>)
               \o (IF Len(rows) > 0 THEN RowLines(rows)
                   ELSE <<[kind |-> "no_namespaces"]>>)]

\* format_output of the io tool after get_subsystem_summary_data returned s1.
IoSummarised(rows, s1, tool) == IoRendered(rows, s1, GetOverallSummaryData(s1.x), tool)

\* format_output of the io tool after get_sorted_namespaces returned r.
IoSorted(r, tool) ==
    IF r.x.exc # NoExc THEN [x |-> r.x, lines |-> << >>]
    ELSE IoSummarised(r.rows, GetSubsystemSummaryData(r.x), tool)

\* NVMeoFTopIO.format_output
IoFormatOutput(x, tool) ==
    IF IndexOf(ns_headers, tool.sort_key) < 0
    THEN [x |-> Raise(x, InvalidSortKey(tool.sort_key,
                   "['NSID', 'RBD Image', 'IOPS', 'r/s', 'rMB/s', 'r_await', 'rareq-sz', "
                   \o "'w/s', 'wMB/s', 'w_await', 'wareq-sz', 'LBGrp', 'QoS']")),
          lines |-> << >>]
    ELSE IoSorted(GetSortedNamespaces(x, IndexOf(ns_headers, tool.sort_key),
                                      tool.reverse_sort),
                  tool)

\* -------------------------------------------------------------- tool runner
\* NVMeoFTopCPU / NVMeoFTopIO constructors.
NewCpuTool(args) ==
    [mode |-> "cpu", args |-> args, reverse_sort |-> args.sort_descending,
     sort_key |-> args.sort_by, service_name |-> args.service]
NewIoTool(args) ==
    [mode |-> "io", args |-> args, reverse_sort |-> args.sort_descending,
     sort_key |-> args.sort_by, subsystem_nqn |-> args.subsystem]

\* NVMeoFTopTool._collect of the two subclasses.
Collect(x, e, tool) ==
    IF tool.mode = "cpu" THEN CollectCpuData(x, e) ELSE CollectIoData(x, e)

\* NVMeoFTopTool.format_output of the two subclasses.
FormatOutput(x, tool) ==
    IF tool.mode = "cpu" THEN CpuFormatOutput(x, tool) ELSE IoFormatOutput(x, tool)

\* What run returns: the (rc, message, output) triple, with the execution and
\* the Health run read after initialise (`hi`) and after collection (`hc`),
\* when it got that far.  `raised` tells whether an exception left run.
RunResult(x, rc, msg, lines, hi, hc) ==
    [x |-> x, rc |-> rc, msg |-> msg, lines |-> lines, raised |-> FALSE,
     hi |-> hi, hc |-> hc]

\* run's `except Exception as ex: return (-errno.EINVAL, str(ex))`.
RunExcept(x, hi, hc) == RunResult(x, -EINVAL, x.exc, << >>, hi, hc)

\* run after format_output returned f.
RunRendered(f, hi, hc) ==
    IF f.x.exc # NoExc THEN RunExcept(f.x, hi, hc)
    ELSE RunResult(f.x, 0, "", f.lines \o <<[kind |-> "end"]>>, hi, hc)

RunCollectedPrefixed(x2, tool, hi) ==
    IF x2.exc # NoExc THEN RunExcept(x2, hi, None)
    ELSE IF ~Ready(x2.c)
    THEN RunResult(x2, x2.c.health.rc,
                   "nvmeof-top has encountered an error: " \o x2.c.health.msg, << >>,
                   hi, Some(x2.c.health))
    ELSE RunRendered(FormatOutput(x2, tool), hi, Some(x2.c.health))

RunCollectedNoExcept(x2, tool, hi) ==
    IF x2.exc # NoExc THEN [RunExcept(x2, hi, None) EXCEPT !.raised = TRUE]
    ELSE IF ~Ready(x2.c)
    THEN RunResult(x2, x2.c.health.rc, x2.c.health.msg, << >>, hi, Some(x2.c.health))
    ELSE RunRendered(FormatOutput(x2, tool), hi, Some(x2.c.health))

\* run after _collect left x2.
RunCollected(x2, tool, hi) ==
    IF x2.exc # NoExc THEN RunExcept(x2, hi, None)
    ELSE IF ~Ready(x2.c)
    THEN RunResult(x2, x2.c.health.rc, x2.c.health.msg, << >>, hi, Some(x2.c.health))
    ELSE RunRendered(FormatOutput(x2, tool), hi, Some(x2.c.health))

RunInitialisedAlwaysCollects(x1, e, tool) ==
    IF x1.exc # NoExc THEN RunExcept(x1, None, None)
    ELSE RunCollected(Collect(x1, e, tool), tool, Some(x1.c.health))

\* run after initialise left x1.
RunInitialised(x1, e, tool) ==
    IF x1.exc # NoExc THEN RunExcept(x1, None, None)
    ELSE IF ~Ready(x1.c)
    THEN RunResult(x1, x1.c.health.rc,
                   "nvmeof-top has encountered an error: " \o x1.c.health.msg, << >>,
                   Some(x1.c.health), None)
    ELSE RunCollected(Collect(x1, e, tool), tool, Some(x1.c.health))

\* NVMeoFTopTool.run
Run(c, e, tool, now) == RunInitialised(Initialise(NewExec(c), e, tool, now), e, tool)

\* HandleCommandResult
CommandResult(retval, stdout, stderr) ==
    [retval |-> retval, stdout |-> stdout, stderr |-> stderr, raised |-> FALSE]

NoRun == [ran |-> FALSE]

\* The text of the exception the session's collector lookup raises.
LookupExcText == "boom"

\* The end of the try-block shared by nvmeof_top_cpu and nvmeof_top_io, once
\* run returned r.
TopRan(r) ==
    [x |-> r.x,
     run |-> [ran |-> TRUE, rc |-> r.rc, msg |-> r.msg, lines |-> r.lines,
              raised |-> r.raised, hi |-> r.hi, hc |-> r.hc, exc |-> r.x.exc],
     result |-> IF r.raised THEN CommandResult(-EINVAL, << >>, r.msg)
                ELSE IF r.rc # 0 THEN CommandResult(r.rc, << >>, r.msg)
                ELSE CommandResult(r.rc, r.lines, "")]

\* The try-block shared by nvmeof_top_cpu and nvmeof_top_io: look the session's
\* collector up (e.collector tells whether the lookup raises, answers None or
\* answers the collector), build the tool and run it.
TopCommand(c, e, tool, now) ==
    IF e.collector = "raise"
    THEN [x |-> NewExec(c), run |-> NoRun,
          result |-> CommandResult(-EINVAL, << >>, LookupExcText)]
    ELSE IF e.collector = "none"
    THEN [x |-> NewExec(c), run |-> NoRun,
          result |-> CommandResult(-EINVAL, << >>, "Unable to initialise collector")]
    ELSE TopRan(Run(c, e, tool, now))

\* nvmeof_top_cpu
NvmeofTopCpu(c, e, args, now) == TopCommand(c, e, NewCpuTool(args), now)

\* The missing-subsystem result of nvmeof_top_io.
MissingSubsystem(c) ==
    [x |-> NewExec(c), run |-> NoRun,
     result |-> CommandResult(-EINVAL, << >>, "Required argument '--subsystem' missing")]

NvmeofTopIoLateCheck(c, e, args, now) ==
    IF args.subsystem = ""
    THEN [TopCommand(c, e, NewIoTool(args), now) EXCEPT !.result = MissingSubsystem(c).result]
    ELSE TopCommand(c, e, NewIoTool(args), now)

\* nvmeof_top_io: a missing subsystem is rejected before the try-block.
NvmeofTopIo(c, e, args, now) ==
    IF args.subsystem = "" THEN MissingSubsystem(c)
    ELSE TopCommand(c, e, NewIoTool(args), now)

\* ----------------------------------------------------- inputs of a command
\* Member lists the service-config lookup may answer for the service.
GwLists == {<<"gw2", "gw1">>}
\* NvmeofGatewaysConfig.get_gateways_config()["gateways"]
GwConfs == {EmptyDict} \cup {<<[k |-> ServiceName, v |-> l]>> : l \in GwLists}

\* What the gateways report in one pass: every gateway reports its cumulative
\* counters at level k (0..MaxTick) with its tick frequency TickRate, except
\* that gateway QuirkGw may leave entries out ("partial": no thread, only the
\* first namespace).
Quirks == {"none", "partial"}
QuirkGw == "gw2"
TickRate == 2

ThreadSample(k) == [name |-> "reactor_0", busy |-> k, idle |-> MaxTick + 1 - k]
ThreadResponse(g, k, quirk) ==
    [tick_rate |-> TickRate,
     threads |-> IF g = QuirkGw /\ quirk = "partial" THEN << >>
                 ELSE <<ThreadSample(k)>>]

IoSample(bdev, k) ==
    [bdev_name |-> bdev, num_read_ops |-> 2 * k, bytes_read |-> 2048 * k,
     read_latency_ticks |-> k, num_write_ops |-> k, bytes_written |-> 3 * k,
     write_latency_ticks |-> 3 * k]
IoResponse(g, k, quirk) ==
    [tick_rate |-> TickRate,
     namespaces |-> IF g = QuirkGw /\ quirk = "partial" THEN <<IoSample("bdev1", k)>>
                    ELSE <<IoSample("bdev1", k), IoSample("bdev2", k)>>]

Subsys(nqn) == [nqn |-> nqn, namespace_count |-> 3, max_namespaces |-> 32]
\* list_subsystems() answers
SubsystemResponses ==
    {[status |-> 0, subsystems |-> << >>],
     [status |-> 1, subsystems |-> << >>],
     [status |-> 0, subsystems |-> <<Subsys("nqn1")>>]}
NoSubsystems == [status |-> 0, subsystems |-> << >>]

Namespace(nsid, lbg, qos) ==
    [nsid |-> nsid,
     bdev_name |-> IF nsid = 1 THEN "bdev1" ELSE IF nsid = 2 THEN "bdev2" ELSE "bdev3",
     rbd_pool_name |-> "rbd",
     rbd_image_name |-> IF nsid = 1 THEN "img1" ELSE IF nsid = 2 THEN "img2" ELSE "img3",
     load_balancing_group |-> lbg,
     rw_ios_per_second |-> qos, rw_mbytes_per_second |-> 0,
     r_mbytes_per_second |-> 0, w_mbytes_per_second |-> 0]
\* list_namespaces() answers: two namespaces in groups 2 and 1, and one in no
\* group (0), in this order.
NamespaceLists == {<<Namespace(2, 2, 100), Namespace(1, 1, 0), Namespace(3, 0, 0)>>}

LbgSource(pg, raises, ret, out, created) ==
    [pool_group |-> pg, raises |-> raises, ret_status |-> ret, out |-> out,
     created |-> created]
GwRow(addr, grp) == [gw_id |-> "nvmeof." \o addr, anagrp_id |-> grp]
\* What get_pool_group_name and the monitor answer to get_lbg_gws_map.
LbgSources ==
    {LbgSource(FALSE, FALSE, 0, TRUE, << >>),
     LbgSource(TRUE, FALSE, 0, TRUE, <<GwRow("gw1", 1), GwRow("gw2", 2)>>)}
NoLbg == LbgSource(FALSE, FALSE, 0, TRUE, << >>)

CpuSortKeys == {"Thread Name", "Gateway", "Load"}
IoSortKeys == {"NSID", "IOPS", "Load"}
Nqns == {"nqn1", "nqn2"}
\* --server-addr values: none, or the second gateway.
ServerAddrs == {"", "gw2"}

Env(collector, ctorRaises, failAt, gwconf, k, quirk, subsystems, namespaces, lbg) ==
    [collector |-> collector, ctorRaises |-> ctorRaises, failAt |-> failAt,
     gwconf |-> gwconf,
     threads |-> [g \in Gateways |-> ThreadResponse(g, k, quirk)],
     io |-> [g \in Gateways |-> IoResponse(g, k, quirk)],
     subsystems |-> subsystems, namespaces |-> namespaces, lbg |-> lbg]

CpuArgs(service, server_addr, sort_by, descending, no_header) ==
    [service |-> service, with_timestamp |-> FALSE, no_header |-> no_header,
     sort_descending |-> descending, sort_by |-> sort_by,
     server_addr |-> server_addr, group |-> ""]

IoArgs(subsystem, server_addr, sort_by, descending) ==
    [subsystem |-> subsystem, with_timestamp |-> FALSE, summary |-> TRUE,
     no_header |-> FALSE, sort_descending |-> descending, sort_by |-> sort_by,
     server_addr |-> server_addr, group |-> ""]

\* The invocations that share a session's collector.
Invocations == {"a", "b"}

\* ------------------------------------------------------------------- state
VARIABLES
    coll,     \* the session's NvmeofTopCollector
    now,      \* the wall clock (time.time())
    result,   \* the HandleCommandResult of the last command
    run,      \* what NVMeoFTopTool.run returned in the last command, if it ran
    trace,    \* the gateway RPCs the last command issued, in order
    views,    \* the collector views the last command requested, in order
    hw,       \* the Health values the last command assigned, in order
    call,     \* the last command: its name, arguments, lookups and their answers
    fed,      \* per statistics key, the last two readings the gateways delivered
    counter,  \* a Counter on its own
    hist,     \* the values passed to counter's update, in order
    out,      \* the last operation on counter and what it returned
    perf,     \* a PerformanceStats on its own
    pout,     \* the last operation on perf, and what perf derived before it
    race      \* a handle cache on its own, with the invocations that use it

vars == <<coll, now, result, run, trace, views, hw, call, fed, counter, hist, out,
          perf, pout, race>>
collVars == <<coll, now, result, run, trace, views, hw, call, fed>>
ctrVars == <<counter, hist, out>>
perfVars == <<perf, pout>>

NoCall == [cmd |-> "none"]

Init ==
    /\ now = 0
    /\ coll = NewCollector(0)
    /\ result = CommandResult(0, << >>, "")
    /\ run = NoRun
    /\ trace = << >>
    /\ views = << >>
    /\ hw = << >>
    /\ call = NoCall
    /\ fed = EmptyDict
    /\ counter = NewCounter
    /\ hist = << >>
    /\ out = [op |-> "new"]
    /\ perf = NewPerformanceStats("bdev1")
    /\ pout = [op |-> "new", feeds |-> 0]
    /\ race = [clients |-> EmptyDict, made |-> << >>,
               inv |-> [p \in Invocations |->
                          [pc |-> "idle", key |-> <<"", "">>, new |-> 0,
                           got |-> EmptyDict, n |-> 0]]]

\* The readings of one statistics response, as the seconds and counts that
\* are fed to the Counters.
ThreadReading(t, tick_rate) ==
    [busy_secs |-> Rat(t.busy, tick_rate), idle_secs |-> Rat(t.idle, tick_rate)]
IoReading(ns, tick_rate) ==
    [read_ops |-> RInt(ns.num_read_ops), read_bytes |-> RInt(ns.bytes_read),
     read_secs |-> Rat(ns.read_latency_ticks, tick_rate),
     write_ops |-> RInt(ns.num_write_ops), write_bytes |-> RInt(ns.bytes_written),
     write_secs |-> Rat(ns.write_latency_ticks, tick_rate)]

Last2(seq) == IF Len(seq) > 2 THEN SubSeq(seq, Len(seq) - 1, Len(seq)) ELSE seq
Deliver(f, key, reading) ==
    Put(f, key, Last2(Append(IF Has(f, key) THEN Get(f, key) ELSE << >>, reading)))

RECURSIVE DeliverThreads(_, _, _, _)
DeliverThreads(f, gw, resp, i) ==
    IF i > Len(resp.threads) THEN f
    ELSE DeliverThreads(
           Deliver(f, <<"cpu", gw, resp.threads[i].name>>,
                   ThreadReading(resp.threads[i], resp.tick_rate)),
           gw, resp, i + 1)

RECURSIVE DeliverIo(_, _, _, _)
DeliverIo(f, gw, resp, i) ==
    IF i > Len(resp.namespaces) THEN f
    ELSE DeliverIo(
           Deliver(f, <<"io", gw, resp.namespaces[i].bdev_name>>,
                   IoReading(resp.namespaces[i], resp.tick_rate)),
           gw, resp, i + 1)

\* fed after the statistics RPCs of trace `tr` from the i-th on were answered.
RECURSIVE FedAfter(_, _, _, _)
FedAfter(f, tr, e, i) ==
    IF i > Len(tr) THEN f
    ELSE IF tr[i].ok /\ tr[i].m = "get_thread_stats"
    THEN FedAfter(DeliverThreads(f, tr[i].gw, e.threads[tr[i].gw], 1), tr, e, i + 1)
    ELSE IF tr[i].ok /\ tr[i].m = "list_namespaces_io_stats"
    THEN FedAfter(DeliverIo(f, tr[i].gw, e.io[tr[i].gw], 1), tr, e, i + 1)
    ELSE FedAfter(f, tr, e, i + 1)

Finish(o, cmd, args, e, t) ==
    /\ coll' = o.x.c
    /\ now' = t
    /\ result' = o.result
    /\ run' = o.run
    /\ trace' = o.x.tr
    /\ views' = o.x.views
    /\ hw' = o.x.hw
    /\ call' = [cmd |-> cmd, args |-> args, collector |-> e.collector,
                failAt |-> e.failAt, gwconf |-> e.gwconf, lookups |-> o.x.lk,
                viewed |-> o.x.snap]
    /\ fed' = FedAfter(fed, o.x.tr, e, 1)
    /\ UNCHANGED <<ctrVars, perfVars, race>>

\* The answers that no step of the command reads are held at a fixed value.
NoStats(k, quirk) == k = 0 /\ quirk = "none"
NoFleet(gwconf, lbg) == gwconf = EmptyDict /\ lbg = NoLbg

\* The answers given to a command that ends before the collector is used.
NoEnv(collector) ==
    Env(collector, FALSE, 0, EmptyDict, 0, "none", NoSubsystems, << >>, NoLbg)
Rejected(o, cmd, args, collector, t) == Finish(o, cmd, args, NoEnv(collector), t)

\* One `nvmeof top cpu` command.  The guards keep every answer that the
\* command does not read at a fixed value, so that one behaviour of the command
\* is one transition; the sort options and the header option are varied with
\* level-0 reports.
TopCpu ==
    \E step \in 1..MaxStep :
      /\ now + step <= MaxTime
      /\ \/ \E collector \in {"none", "raise"} :
              LET args == CpuArgs("", "", "Thread Name", FALSE, FALSE)
              IN  Rejected(NvmeofTopCpu(coll, NoEnv(collector), args, now + step),
                           "cpu", args, collector, now + step)
         \/ \E service \in {"", ServiceName}, server_addr \in ServerAddrs :
              /\ service # "" => server_addr = ""
              /\ \E ctorRaises \in BOOLEAN, failAt \in 0..3, gwconf \in GwConfs :
                 LET fleet == service # ""
                     newInit == ~Has(coll.clients, <<"", server_addr>>)
                     initOk == ~(ctorRaises /\ newInit) /\ failAt # 1
                     polls == initOk /\ (~fleet \/ Has(gwconf, ServiceName))
                 IN
                 /\ (ctorRaises /\ newInit) => failAt = 0
                 /\ (ctorRaises /\ ~newInit) => fleet
                 /\ ~(initOk /\ fleet) => gwconf = EmptyDict
                 /\ failAt >= 2 => polls
                 /\ failAt = 3 => fleet
                 /\ \E k \in 0..MaxTick, quirk \in Quirks, sort_by \in CpuSortKeys,
                       descending \in BOOLEAN, no_header \in BOOLEAN :
                      /\ (~polls \/ failAt = 2) => NoStats(k, quirk)
                      /\ (~fleet /\ server_addr # QuirkGw) => quirk = "none"
                      /\ ~(polls /\ failAt = 0 /\ NoStats(k, quirk) /\ ~ctorRaises)
                         => sort_by = "Thread Name" /\ ~descending
                      /\ no_header => /\ polls /\ failAt = 0 /\ ~ctorRaises /\ k = 0
                                      /\ sort_by = "Thread Name" /\ ~descending
                      /\ LET args == CpuArgs(service, server_addr, sort_by, descending,
                                             no_header)
                             e == Env("ok", ctorRaises, failAt, gwconf, k, quirk,
                                      NoSubsystems, << >>, NoLbg)
                         IN  Finish(NvmeofTopCpu(coll, e, args, now + step), "cpu",
                                    args, e, now + step)

\* One `nvmeof top io` command, with the same convention.
TopIo ==
    \E step \in 1..MaxStep :
      /\ now + step <= MaxTime
      /\ \/ \E collector \in {"ok", "none", "raise"}, subsystem \in {"", "nqn1"} :
              LET args == IoArgs(subsystem, "", "NSID", FALSE)
              IN  /\ collector = "ok" => subsystem = ""
                  /\ Rejected(NvmeofTopIo(coll, NoEnv(collector), args, now + step),
                              "io", args, collector, now + step)
         \/ \E subsystem \in Nqns, server_addr \in ServerAddrs :
            \E ctorRaises \in BOOLEAN, failAt \in 0..5 :
            \E subsystems \in SubsystemResponses,
               namespaces \in NamespaceLists \cup {<< >>} :
              LET fleet == server_addr = ""
                  newInit == ~Has(coll.clients, <<"", server_addr>>)
                  initOk == ~(ctorRaises /\ newInit) /\ failAt # 1
                  cached == coll.subsystems.some /\ Has(coll.namespaces, subsystem)
                  fetched == initOk /\ ~cached /\ failAt # 2
                  found == /\ fetched
                           /\ subsystems.status = 0
                           /\ \E i \in 1..Len(subsystems.subsystems) :
                                subsystems.subsystems[i].nqn = subsystem
                  listed == found /\ failAt # 3
                  catalogOk == initOk /\ (cached \/ listed)
                  \* number of the first statistics RPC of the pass
                  first == IF cached THEN 2 ELSE 4
              IN
              /\ (ctorRaises /\ newInit) => failAt = 0
              /\ (ctorRaises /\ ~newInit) => fleet
              /\ failAt = 2 => initOk
              /\ (failAt = 3 /\ ~cached) => found
              /\ ~fetched => subsystems = NoSubsystems
              /\ listed <=> namespaces # << >>
              /\ \E gwconf \in GwConfs, lbg \in LbgSources :
                   LET polls == catalogOk
                                /\ (~fleet \/ (Has(gwconf, ServiceName)
                                               /\ Len(GetLbgGwsMap(lbg)) > 0))
                   IN
                   /\ ~(catalogOk /\ fleet) => NoFleet(gwconf, lbg)
                   /\ gwconf = EmptyDict => lbg = NoLbg
                   /\ failAt >= first => polls
                   /\ failAt <= first + 1
                   /\ failAt = first + 1 => fleet
                   /\ \E k \in 0..MaxTick, quirk \in Quirks, sort_by \in IoSortKeys,
                         descending \in BOOLEAN :
                        /\ (~polls \/ failAt = first) => NoStats(k, quirk)
                        /\ ~(polls /\ failAt = 0 /\ NoStats(k, quirk) /\ ~ctorRaises)
                           => sort_by = "NSID" /\ ~descending
                        /\ LET args == IoArgs(subsystem, server_addr, sort_by, descending)
                               e == Env("ok", ctorRaises, failAt, gwconf, k, quirk,
                                        subsystems, namespaces, lbg)
                           IN  Finish(NvmeofTopIo(coll, e, args, now + step), "io",
                                      args, e, now + step)

Next == TopCpu \/ TopIo

Spec == Init /\ [][Next]_vars

\* ----------------------------------- a session of io commands at one gateway
\* One `nvmeof top io` command bound to the second gateway, one second after
\* the previous command.  The catalog RPCs may fail (failAt 2: list_subsystems,
\* failAt 3: list_namespaces) when the command issues them; the answers that
\* the command does not read are held fixed.
TopIoBound ==
    \E subsystem \in Nqns, failAt \in {0, 2, 3}, k \in 0..MaxTick :
    \E subsystems \in SubsystemResponses, namespaces \in NamespaceLists \cup {<< >>} :
      LET cached == coll.subsystems.some /\ Has(coll.namespaces, subsystem)
          fetched == ~cached /\ failAt # 2
          found == /\ fetched
                   /\ subsystems.status = 0
                   /\ \E i \in 1..Len(subsystems.subsystems) :
                        subsystems.subsystems[i].nqn = subsystem
          args == IoArgs(subsystem, QuirkGw, "NSID", FALSE)
          e == Env("ok", FALSE, failAt, EmptyDict, k, "none", subsystems, namespaces,
                   NoLbg)
      IN  /\ now < MaxPasses
          /\ cached => failAt = 0
          /\ failAt = 3 => found
          /\ ~(cached \/ (found /\ failAt # 3)) => k = 0
          /\ ~fetched => subsystems = NoSubsystems
          /\ (found /\ failAt # 3) <=> namespaces # << >>
          /\ Finish(NvmeofTopIo(coll, e, args, now + 1), "io", args, e, now + 1)

CatalogSpec == Init /\ [][TopIoBound]_vars

\* ------------------------------------ a session at gateways that tick evenly
\* What the gateways report to a pass made at time t when every cumulative
\* counter advances by one unit per second: a reading tells when it was fetched.
SteadyEnv(failAt, gwconf, t) ==
    [Env("ok", FALSE, failAt, gwconf, t, "none",
         [status |-> 0, subsystems |-> <<Subsys("nqn1")>>],
         <<Namespace(2, 2, 100), Namespace(1, 1, 0), Namespace(3, 0, 0)>>, NoLbg)
       EXCEPT !.threads = [g \in Gateways |->
                             [tick_rate |-> TickRate,
                              threads |-> <<[name |-> "reactor_0", busy |-> t,
                                             idle |-> t]>>]]]

\* One command of the session, one second after the previous one: a cpu
\* command bound to the second gateway or for the fleet service, or an io
\* command bound to the second gateway.  get_gateway_info (failAt 1) or a
\* get_thread_stats RPC (failAt 2, 3) may fail.
TopSteady ==
    /\ now < MaxPasses
    /\ \/ \E service \in {"", ServiceName}, failAt \in 0..3,
              sort_by \in {"Gateway", "Busy Rate%"} :
            LET args == CpuArgs(service, IF service = "" THEN QuirkGw ELSE "", sort_by,
                                FALSE, FALSE)
                e == SteadyEnv(failAt,
                               IF service = "" \/ failAt = 1 THEN EmptyDict
                               ELSE <<[k |-> ServiceName, v |-> <<"gw2", "gw1">>]>>,
                               now + 1)
            IN  /\ failAt = 3 => service # ""
                /\ failAt # 0 => sort_by = "Gateway"
                /\ Finish(NvmeofTopCpu(coll, e, args, now + 1), "cpu", args, e, now + 1)
       \/ \E failAt \in {0, 1} :
            LET args == IoArgs("nqn1", QuirkGw, "NSID", FALSE)
                e == SteadyEnv(failAt, EmptyDict, now + 1)
            IN  Finish(NvmeofTopIo(coll, e, args, now + 1), "io", args, e, now + 1)

SteadySpec == Init /\ [][TopSteady]_vars

\* ------------------------------------------------------ a Counter on its own
\* c.update(v)
Update ==
    \E v \in 0..MaxVal :
      /\ Len(hist) < MaxUpdates
      /\ counter' = CounterUpdate(counter, RInt(v))
      /\ hist' = Append(hist, v)
      /\ out' = [op |-> "update", value |-> v]
      /\ UNCHANGED <<collVars, perfVars, race>>

\* c.rate(interval)
Rate ==
    \E interval \in 0..MaxInterval :
      /\ out' = [op |-> "rate", interval |-> interval,
                 value |-> CounterRate(counter, RInt(interval))]
      /\ UNCHANGED <<counter, hist>>
      /\ UNCHANGED <<collVars, perfVars, race>>

CounterNext == Update \/ Rate

CounterSpec == Init /\ [][CounterNext]_vars

\* --------------------------------------------- a PerformanceStats on its own
\* The read or the write counters of perf are fed one reading each, as
\* _fetch_namespace_iostats feeds them.
PerfFeed ==
    \E side \in {"read", "write"}, ops \in 0..MaxOps, bytes \in {0, 3, 2048},
       secs \in {0, 1} :
      /\ pout.feeds < MaxFeeds
      /\ perf' = IF side = "read"
                 THEN [perf EXCEPT !.read_ops = CounterUpdate(@, RInt(ops)),
                                   !.read_bytes = CounterUpdate(@, RInt(bytes)),
                                   !.read_secs = CounterUpdate(@, RInt(secs))]
                 ELSE [perf EXCEPT !.write_ops = CounterUpdate(@, RInt(ops)),
                                   !.write_bytes = CounterUpdate(@, RInt(bytes)),
                                   !.write_secs = CounterUpdate(@, RInt(secs))]
      /\ pout' = [op |-> "feed", feeds |-> pout.feeds + 1]
      /\ UNCHANGED <<collVars, ctrVars, race>>

\* perf.calculate(delay)
PerfCalc ==
    \E delay \in 0..MaxDelay :
      /\ perf' = PerfCalculate(perf, RInt(delay))
      /\ pout' = [op |-> "calculate", feeds |-> pout.feeds, delay |-> delay,
                  was |-> [rareq_sz |-> perf.rareq_sz, r_await |-> perf.r_await,
                           wareq_sz |-> perf.wareq_sz, w_await |-> perf.w_await]]
      /\ UNCHANGED <<collVars, ctrVars, race>>

\* One poll of perf's namespace, end to end: the owning gateway reports the
\* cumulative read counters (ops, bytes), _fetch_namespace_iostats feeds them to
\* the Counters of the collector's entry, and get_sorted_namespaces calculates
\* the rates over the collector's delay (halves / 2 seconds) and emits the row.
PerfPoll ==
    \E ops \in {2, 150}, halves \in {2, 3} :
      LET stats == [tick_rate |-> TickRate,
                    namespaces |-> <<[bdev_name |-> perf.bdev, num_read_ops |-> ops,
                                      bytes_read |-> 153600, read_latency_ticks |-> 1,
                                      num_write_ops |-> 0, bytes_written |-> 0,
                                      write_latency_ticks |-> 0]>>]
          c0 == [NewCollector(0) EXCEPT
                   !.iostats = <<[k |-> "nvmeof.gw1", v |-> <<[k |-> perf.bdev, v |-> perf]>>]>>,
                   !.delay = Rat(halves, 2)]
          x1 == FoldIostats(NewExec(c0), "nvmeof.gw1", stats, 1)
          ps == PerfCalculate(Get(Get(x1.c.iostats, "nvmeof.gw1"), perf.bdev), x1.c.delay)
      IN  /\ pout.feeds < MaxFeeds
          /\ perf' = ps
          /\ pout' = [op |-> "poll", feeds |-> pout.feeds + 1,
                      delay |-> Rat(halves, 2), ops |-> ops, bytes |-> 153600,
                      was |-> [ops |-> perf.read_ops.current,
                               bytes |-> perf.read_bytes.current],
                      row |-> NamespaceRow(Namespace(1, 1, 0), ps)]
          /\ UNCHANGED <<collVars, ctrVars, race>>

PerfNext == PerfFeed \/ PerfCalc \/ PerfPoll

PerfSpec == Init /\ [][PerfNext]_vars

\* ------------------------------------- invocations that share a handle cache
\* _get_client, statement by statement, as two invocations on one collector
\* run it: `race.clients` is self.clients (key -> handle), `race.made` lists
\* the key of every handle constructed, in order of construction, and an
\* invocation keeps the handles it was returned, by key (`got`).
\*
\* `key = (group, service_url)` and the test `key not in self.clients`.
GcCheck ==
    \E p \in Invocations, key \in {<<"", g>> : g \in Gateways} :
      /\ race.inv[p].pc = "idle" /\ race.inv[p].n < MaxRequests
      /\ race' = [race EXCEPT
                    !.inv[p].key = key,
                    !.inv[p].pc = IF Has(race.clients, key) THEN "return" ELSE "create"]
      /\ UNCHANGED <<collVars, ctrVars, perfVars>>

\* `NVMeoFClient(group, service_url)`: a handle is constructed.
GcCreate ==
    \E p \in Invocations :
      /\ race.inv[p].pc = "create"
      /\ race' = [race EXCEPT
                    !.made = Append(@, race.inv[p].key),
                    !.inv[p].new = Len(race.made) + 1,
                    !.inv[p].pc = "store"]
      /\ UNCHANGED <<collVars, ctrVars, perfVars>>

\* `self.clients[key] = ...`: the constructed handle is stored.
GcStore ==
    \E p \in Invocations :
      /\ race.inv[p].pc = "store"
      /\ race' = [race EXCEPT
                    !.clients = Put(@, race.inv[p].key, race.inv[p].new),
                    !.inv[p].pc = "return"]
      /\ UNCHANGED <<collVars, ctrVars, perfVars>>

\* `return self.clients[key]`
GcReturn ==
    \E p \in Invocations :
      /\ race.inv[p].pc = "return"
      /\ race' = [race EXCEPT
                    !.inv[p].got = Put(@, race.inv[p].key,
                                       Get(race.clients, race.inv[p].key)),
                    !.inv[p].n = @ + 1,
                    !.inv[p].pc = "idle"]
      /\ UNCHANGED <<collVars, ctrVars, perfVars>>

RaceSpec == Init /\ [][GcCheck \/ GcCreate \/ GcStore \/ GcReturn]_vars

\* ================================================================== claims
\* The two values most recently passed to update (0 stands for a value the
\* Counter was constructed with).
PrevHist(n) == IF Len(hist) >= n THEN hist[Len(hist) + 1 - n] ELSE 0

\* C1: after successive updates update(v1), update(v2), rate(interval) with
\* interval > 0 is (v2 - v1) / interval, also when v2 < v1 (no clamping), and
\* rate(0) is 0 whatever the counter holds.
C1_RateIsDeltaOverInterval ==
    out.op = "rate" =>
      /\ out.interval = 0 => out.value = RZero
      /\ out.interval > 0 =>
           /\ out.value.d > 0
           /\ out.value.n * out.interval = (PrevHist(1) - PrevHist(2)) * out.value.d

\* A rate taken after two updates of which the second is the smaller.
C1_Witness ==
    /\ out.op = "rate" /\ out.interval > 1
    /\ Len(hist) >= 2 /\ PrevHist(1) < PrevHist(2)
    /\ out.value.n < 0

\* C2: a Counter is constructed with current = last = 0; update(v) sets current
\* to v and last to the value current had just before; no other operation
\* (rate) changes either field.
C2_LastIsPreviousCurrent ==
    /\ counter = NewCounter
    /\ [][/\ out'.op = "update" =>
               counter' = [current |-> RInt(out'.value), last |-> counter.current]
          /\ out'.op # "update" => counter' = counter]_vars

\* A Counter updated twice, with two different non-zero values.
C2_Witness ==
    /\ Len(hist) >= 2 /\ PrevHist(1) # PrevHist(2) /\ PrevHist(2) # 0
    /\ counter = [current |-> RInt(PrevHist(1)), last |-> RInt(PrevHist(2))]
    /\ out.op = "rate"

\* The statistics entry of a key of fed, if the collector has one.
StatsOf(key) ==
    LET owners == IF key[1] = "cpu" THEN coll.reactor_stats ELSE coll.iostats
        owner == IF key[1] = "cpu" THEN key[2] ELSE "nvmeof." \o key[2]
    IN  IF Has(owners, owner) /\ Has(Get(owners, owner), key[3])
        THEN Some(Get(Get(owners, owner), key[3])) ELSE None

CounterNames(kind) ==
    IF kind = "cpu" THEN {"busy_secs", "idle_secs"}
    ELSE {"read_ops", "read_bytes", "read_secs", "write_ops", "write_bytes", "write_secs"}

\* C3: the statistics entry of a key exists from the first fetch that reports
\* the key and is never replaced or removed: each of its Counters holds the
\* latest delivered reading in current and, from the second delivery on, the
\* reading delivered before that one in last.
C3_StatsEntriesPersist ==
    \A i \in 1..Len(fed) :
      LET key == fed[i].k
          got == fed[i].v
          st == StatsOf(key)
      IN  /\ st.some
          /\ \A f \in CounterNames(key[1]) :
               /\ st.v[f].current = got[Len(got)][f]
               /\ Len(got) >= 2 => st.v[f].last = got[1][f]

\* A thread and a namespace device whose second reading has been delivered,
\* the first one not being zero.
C3_Witness ==
    \E i \in 1..Len(fed) :
      /\ Len(fed[i].v) = 2
      /\ \A f \in CounterNames(fed[i].k[1]) :
           ~RIsZero(fed[i].v[1][f]) /\ fed[i].v[1][f] # fed[i].v[2][f]

\* ----------------------------------------------------------- run and errors
CollectionRpcs ==
    {"get_thread_stats", "list_subsystems", "list_namespaces", "list_namespaces_io_stats"}
StatsRpcs == {"get_thread_stats", "list_namespaces_io_stats"}
IsStatsRpc(rec) == rec.m \in StatsRpcs
Unhealthy(h) == h.some /\ h.v.rc # 0
Healthy(h) == h.some /\ h.v.rc = 0

\* C4: run initialises, then collects, then renders.  Unhealthy after
\* initialise: a failure result, no collection RPC, no view.  Unhealthy after
\* collection: a failure result, no view.  Status 0 only when the collector was
\* healthy after both steps.
C4_RunOrder ==
    run.ran =>
      /\ Unhealthy(run.hi) =>
           /\ run.rc # 0 /\ run.lines = << >>
           /\ \A i \in 1..Len(trace) : trace[i].m \notin CollectionRpcs
           /\ views = << >>
      /\ Unhealthy(run.hc) => run.rc # 0 /\ run.lines = << >> /\ views = << >>
      /\ run.rc = 0 => Healthy(run.hi) /\ Healthy(run.hc)
      /\ \A i \in 1..Len(trace) :
           IF i = 1 THEN trace[i].m = "get_gateway_info"
           ELSE trace[i].m \in CollectionRpcs /\ Healthy(run.hi)
      /\ views # << >> => Healthy(run.hc)

\* A run that found the collector unhealthy after initialise, on a collector
\* that holds statistics of an earlier pass.
C4_Witness ==
    /\ run.ran /\ Unhealthy(run.hi) /\ Len(trace) = 1
    /\ Len(coll.reactor_stats) + Len(coll.iostats) > 0

Headers(cmd) == IF cmd = "cpu" THEN reactors_headers ELSE ns_headers
UnsupportedSortKey(cl) ==
    /\ cl.cmd \in {"cpu", "io"}
    /\ IndexOf(Headers(cl.cmd), cl.args.sort_by) < 0

\* C5: a run with a sort key that is not a column name of the mode issues no
\* gateway RPC and changes no Counter, timestamp or delay of the collector.
C5_UnsupportedSortKeyRejectedFirst ==
    [][(run'.ran /\ UnsupportedSortKey(call')) =>
         /\ trace' = << >>
         /\ coll'.reactor_stats = coll.reactor_stats
         /\ coll'.iostats = coll.iostats
         /\ coll'.timestamp = coll.timestamp
         /\ coll'.delay = coll.delay]_vars

InitPrefix == "nvmeof-top has encountered an error: "

\* C6, as amended: a run that ends with the collector unhealthy returns the
\* Health code; its message is exactly the Health message when the failure
\* arose in collection, and the Health message after the words "nvmeof-top has
\* encountered an error: " when it arose in initialise.
C6_FailureResultCarriesHealth ==
    (run.ran /\ coll.health.rc # 0) =>
      /\ run.rc = coll.health.rc
      /\ run.msg = IF Unhealthy(run.hi) THEN InitPrefix \o coll.health.msg
                   ELSE coll.health.msg
      /\ result = CommandResult(run.rc, << >>, run.msg)

\* A run whose initialise left the collector unhealthy: the result carries the
\* Health code and the prefixed Health message.
C6_Witness ==
    /\ run.ran /\ coll.health.rc # 0 /\ Unhealthy(run.hi)
    /\ run.rc = -ECONNREFUSED
    /\ run.msg = InitPrefix \o coll.health.msg

\* C6 as stated: the message of the failure result is exactly the Health
\* message wherever the failure arose.
C6_MessageIsExactlyHealthMessage ==
    (run.ran /\ coll.health.rc # 0) =>
      /\ run.rc = coll.health.rc
      /\ run.msg = coll.health.msg

\* C7: no exception leaves run or the commands; an exception raised while
\* initialising, collecting or rendering, or while looking the collector up,
\* yields status -EINVAL with the exception's text as message.
C7_ExceptionsBecomeEinval ==
    /\ ~result.raised
    /\ run.ran => ~run.raised
    /\ (run.ran /\ run.exc # NoExc) =>
         /\ run.rc = -EINVAL /\ run.msg = run.exc
         /\ result = CommandResult(-EINVAL, << >>, run.exc)
    /\ (call.cmd # "none" /\ call.collector = "raise"
        /\ ~(call.cmd = "io" /\ call.args.subsystem = "")) =>
         result = CommandResult(-EINVAL, << >>, LookupExcText)

\* An exception raised in the middle of collection, after a gateway answered.
C7_Witness ==
    /\ run.ran /\ run.exc # NoExc
    /\ Healthy(run.hi) /\ ~run.hc.some
    /\ \E i \in 1..Len(trace) : IsStatsRpc(trace[i]) /\ trace[i].ok

\* C8: `nvmeof top io` without a subsystem returns -EINVAL "Required argument
\* '--subsystem' missing" whatever the collector lookup would answer, issues
\* no RPC and leaves the collector as it was.
C8_MissingSubsystemRejected ==
    [][(call'.cmd = "io" /\ call'.args.subsystem = "") =>
         /\ result' = CommandResult(-EINVAL, << >>,
                                    "Required argument '--subsystem' missing")
         /\ run' = NoRun
         /\ trace' = << >> /\ views' = << >> /\ hw' = << >>
         /\ coll' = coll]_vars

\* The command without a subsystem, in a session whose collector lookup would
\* raise, after a pass that filled the collector.
C8_Witness ==
    /\ call.cmd = "io" /\ call.args.subsystem = "" /\ call.collector = "raise"
    /\ Len(coll.iostats) > 0

\* The statistics the collector holds for one gateway.
OwnerStats(c, gw) ==
    [cpu |-> IF Has(c.reactor_stats, gw) THEN Some(Get(c.reactor_stats, gw)) ELSE None,
     io |-> IF Has(c.iostats, "nvmeof." \o gw) THEN Some(Get(c.iostats, "nvmeof." \o gw))
            ELSE None]

\* The gateway a command's first client is bound to.
BoundGw(cl) == IF cl.args.server_addr = "" THEN DefaultGw ELSE cl.args.server_addr

\* C9: an RPC that raises sets Health to -ECONNREFUSED "RPC endpoint
\* unavailable at <address of the called client>" and returns no response; the
\* fetch that issued it changes and creates no statistics of that gateway.
C9_FailedRpcSetsHealth ==
    [][\A i \in 1..Len(trace') :
         ~trace'[i].ok =>
           /\ trace'[i].health =
                Health(-ECONNREFUSED, "RPC endpoint unavailable at " \o trace'[i].gw)
           /\ coll'.health.rc = -ECONNREFUSED
           /\ i = 1 => trace'[i].gw = BoundGw(call') /\ ~coll'.gw_info.some
           /\ trace'[i].m = "list_subsystems" => ~coll'.subsystems.some
           /\ trace'[i].m = "list_namespaces" => coll'.namespaces = coll.namespaces
           /\ OwnerStats(coll', trace'[i].gw) = OwnerStats(coll, trace'[i].gw)]_vars

\* A statistics fetch that failed at a gateway whose counters an earlier pass
\* had filled.
C9_Witness ==
    \E i \in 1..Len(trace) :
      /\ ~trace[i].ok /\ IsStatsRpc(trace[i])
      /\ \/ OwnerStats(coll, trace[i].gw).cpu.some
         \/ OwnerStats(coll, trace[i].gw).io.some

\* The command polls the members of a service.
FleetPass ==
    /\ run.ran
    /\ \/ call.cmd = "cpu" /\ call.args.service # ""
       \/ call.cmd = "io" /\ call.args.server_addr = ""
Members ==
    LET service == IF call.cmd = "cpu" THEN call.args.service ELSE ServiceName
    IN  IF Has(call.gwconf, service) THEN Get(call.gwconf, service) ELSE << >>
StatsTrace == SelectSeq(trace, IsStatsRpc)

\* C10: in fleet mode the statistics RPCs of a pass go to the members in list
\* order, one per member; after a fetch that leaves the collector unhealthy no
\* later member is fetched and the pass ends with the Health of that fetch.
C10_FleetPollsInOrder ==
    FleetPass =>
      LET st == StatsTrace
      IN  /\ Len(st) <= Len(Members)
          /\ \A i \in 1..Len(st) :
               /\ st[i].gw = Members[i]
               /\ i < Len(st) => st[i].ok
               /\ \A j \in 1..Len(st) : j # i => st[j].gw # st[i].gw
          /\ (Len(st) > 0 /\ ~st[Len(st)].ok) =>
               /\ coll.health = st[Len(st)].health
               /\ run.rc = st[Len(st)].health.rc
               /\ run.msg = st[Len(st)].health.msg

\* A fleet pass whose first member's fetch failed, with a member left.
C10_Witness ==
    /\ FleetPass
    /\ Len(StatsTrace) = 1 /\ Len(Members) > 1
    /\ ~StatsTrace[1].ok

\* ------------------------------------------------------- collection failures
\* The RPCs of the last command, by method and outcome.
Issued(m) == \E i \in 1..Len(trace) : trace[i].m = m
Answered(m) == \E i \in 1..Len(trace) : trace[i].m = m /\ trace[i].ok
Failed(m) == \E i \in 1..Len(trace) : trace[i].m = m /\ ~trace[i].ok

\* The last command was an io command that fetched a usable subsystem catalog.
CatalogFetched ==
    /\ call.cmd = "io" /\ Answered("list_subsystems")
    /\ coll.subsystems.some /\ coll.subsystems.v.status <= 0

\* The failure `h` ended the collection of the last command and is its result.
CollectionEndedWith(h) ==
    /\ coll.health = h /\ ~Ready(coll)
    /\ run.ran /\ run.hc = Some(h) /\ run.rc = h.rc /\ run.msg = h.msg
    /\ result.retval = h.rc /\ result.stderr = h.msg

\* C11: collect_io_data that fetches an empty subsystem catalog ends with
\* Health (-ENOENT, "No subsystems found"), not ready, and issues neither
\* list_namespaces nor list_namespaces_io_stats.
C11_EmptyCatalogNotFound ==
    (CatalogFetched /\ Len(coll.subsystems.v.subsystems) = 0) =>
      /\ CollectionEndedWith(Health(-ENOENT, "No subsystems found"))
      /\ ~Issued("list_namespaces") /\ ~Issued("list_namespaces_io_stats")

\* An empty catalog fetched by a collector that holds the namespaces and the
\* counters of an earlier pass.
C11_Witness ==
    /\ CatalogFetched /\ Len(coll.subsystems.v.subsystems) = 0
    /\ Len(coll.namespaces) > 0 /\ Len(coll.iostats) > 0

\* C12: collect_io_data whose list_subsystems RPC fails, or answers with a
\* status above 0, ends with Health (-ECONNREFUSED, "Unable to retrieve a list
\* of subsystems") and fetches no namespace list and no I/O counters.
C12_CatalogUnavailable ==
    (call.cmd = "io"
     /\ \/ Failed("list_subsystems")
        \/ Answered("list_subsystems") /\ coll.subsystems.v.status > 0) =>
      /\ CollectionEndedWith(
           Health(-ECONNREFUSED, "Unable to retrieve a list of subsystems"))
      /\ ~Issued("list_namespaces") /\ ~Issued("list_namespaces_io_stats")

\* A list_subsystems RPC that failed, on a collector that had a catalog.
C12_Witness ==
    /\ call.cmd = "io" /\ Failed("list_subsystems")
    /\ ~coll.subsystems.some /\ Len(coll.namespaces) > 0

\* C13: collect_io_data for a non-empty subsystem identifier that is not in
\* the fetched, non-empty catalog ends with Health (-ENOENT, "Subsystem NQN
\* provided not found"), records no namespace list for the identifier and
\* fetches no I/O counters.
C13_UnknownNqnNotFound ==
    (/\ CatalogFetched /\ Len(coll.subsystems.v.subsystems) > 0
     /\ call.args.subsystem # ""
     /\ ~InSeq(NqnList(coll), call.args.subsystem)) =>
      /\ CollectionEndedWith(Health(-ENOENT, "Subsystem NQN provided not found"))
      /\ ~Has(coll.namespaces, call.args.subsystem)
      /\ ~Issued("list_namespaces") /\ ~Issued("list_namespaces_io_stats")

\* An identifier missing from a catalog that lists another subsystem, whose
\* namespaces the collector holds.
C13_Witness ==
    /\ CatalogFetched /\ Len(coll.subsystems.v.subsystems) > 0
    /\ ~InSeq(NqnList(coll), call.args.subsystem)
    /\ Len(coll.namespaces) > 0

\* The last command made the lookup named f.
LookedUp(f) == \E i \in 1..Len(call.lookups) : call.lookups[i] = f

\* The last command was an io command in fleet mode whose load-balancing-group
\* lookup answered the empty mapping.
EmptyLbgMapping ==
    /\ call.cmd = "io" /\ call.args.server_addr = ""
    /\ LookedUp("get_lbg_gws_map") /\ Len(coll.lbg_to_gateway) = 0

\* C14: collect_io_data in fleet mode whose load-balancing-group lookup answers
\* the empty mapping ends with Health (-ENOENT, "Failed to retrieve load
\* balancing group mapping for service <name>"); no gateway is asked for I/O
\* counters in that pass and iostats is what it was before the command.
C14_EmptyLbgMappingNotFound ==
    [][EmptyLbgMapping' =>
         /\ CollectionEndedWith(
              Health(-ENOENT,
                     "Failed to retrieve load balancing group mapping for service "
                     \o ServiceName))'
         /\ \A i \in 1..Len(trace') : trace'[i].m # "list_namespaces_io_stats"
         /\ coll'.iostats = coll.iostats]_vars

\* The empty mapping answered to a collector that holds I/O counters of an
\* earlier pass, for a service whose members are configured.
C14_Witness ==
    /\ EmptyLbgMapping
    /\ Len(coll.iostats) > 0 /\ Len(Members) > 0

\* The service whose members the last command looked up.
LookedUpService == IF call.cmd = "cpu" THEN call.args.service ELSE ServiceName

\* The last command looked the service configuration up and the service is
\* not in it.
ServiceMissing ==
    /\ call.cmd \in {"cpu", "io"}
    /\ LookedUp("get_gateways_config") /\ ~Has(call.gwconf, LookedUpService)

\* C15: when the fleet service is not in the service configuration,
\* collect_cpu_data (service requested) and collect_io_data (fleet mode) end
\* with Health (-ENOENT, "Service <name> not found") and fetch statistics from
\* no gateway.
C15_MissingServiceNotFound ==
    ServiceMissing =>
      /\ CollectionEndedWith(
           Health(-ENOENT, "Service " \o LookedUpService \o " not found"))
      /\ StatsTrace = << >>
      /\ ~LookedUp("get_lbg_gws_map")

\* A cpu command for a service that is not configured, on a collector that
\* holds thread counters of an earlier pass.
C15_Witness ==
    /\ ServiceMissing /\ call.cmd = "cpu"
    /\ Len(coll.reactor_stats) > 0

\* ------------------------------------------------------------------- views
\* The data rows of the table the last command rendered (the lines after the
\* header line).
IsRowLine(line) == line.kind = "row"
DataRows ==
    LET lines == SelectSeq(result.stdout, IsRowLine)
        h == IF call.args.no_header THEN 0 ELSE 1
    IN  [i \in 1..(Len(lines) - h) |-> lines[i + h].cols]

\* The last command rendered the namespaces of the active subsystem in fleet
\* mode.
FleetNamespacesView ==
    /\ call.cmd = "io" /\ call.args.server_addr = ""
    /\ \E i \in 1..Len(views) : views[i] = "get_sorted_namespaces"

ActiveNamespaces == Get(coll.namespaces, coll.subsystem_nqn)

\* The namespace has an owning daemon in lbg_to_gateway, and PerformanceStats
\* are recorded for that daemon and the namespace's device.
HasOwnerAndStats(ns) ==
    /\ Has(coll.lbg_to_gateway, ns.load_balancing_group)
    /\ Has(coll.iostats, Get(coll.lbg_to_gateway, ns.load_balancing_group))
    /\ Has(Get(coll.iostats, Get(coll.lbg_to_gateway, ns.load_balancing_group)),
           ns.bdev_name)

\* C16: in fleet mode get_sorted_namespaces omits exactly the namespaces of
\* the active subsystem whose load-balancing group has no entry in
\* lbg_to_gateway or whose (daemon, device) pair has no PerformanceStats, emits
\* one row for every other namespace, raises nothing and leaves Health as the
\* collection left it.
C16_GapsAreSkipped ==
    FleetNamespacesView =>
      /\ \A i \in 1..Len(ActiveNamespaces) :
           Cardinality({j \in 1..Len(DataRows) :
                          DataRows[j][1] = ActiveNamespaces[i].nsid})
             = IF HasOwnerAndStats(ActiveNamespaces[i]) THEN 1 ELSE 0
      /\ \A j \in 1..Len(DataRows) :
           \E i \in 1..Len(ActiveNamespaces) :
             DataRows[j][1] = ActiveNamespaces[i].nsid
      /\ run.exc = NoExc /\ ~result.raised /\ result.retval = 0
      /\ coll.health = run.hc.v /\ coll.health.rc = 0

\* A table with a row for one namespace, another namespace left out for want
\* of an owner and a third for want of counters.
C16_Witness ==
    /\ FleetNamespacesView
    /\ Len(DataRows) = 1
    /\ \E i, j \in 1..Len(ActiveNamespaces) :
         /\ ~Has(coll.lbg_to_gateway, ActiveNamespaces[i].load_balancing_group)
         /\ Has(coll.lbg_to_gateway, ActiveNamespaces[j].load_balancing_group)
         /\ ~HasOwnerAndStats(ActiveNamespaces[j])

\* The last command rendered a sorted table.
SortedView ==
    /\ call.cmd \in {"cpu", "io"} /\ run.ran /\ run.rc = 0
    /\ \E i \in 1..Len(views) : views[i] \in {"get_reactor_data", "get_sorted_namespaces"}

\* The rows in the order the view emits them, before the sort.
EmittedRows ==
    IF call.cmd = "cpu" THEN ReactorRows(NewExec(coll), 1, 1, << >>).rows
    ELSE NamespaceRows(NewExec(coll), ActiveNamespaces, 1, << >>).rows

\* The requested column (from 1) and how its values compare.
SortColumn == IndexOf(Headers(call.cmd), call.args.sort_by) + 1
SortKind ==
    IF call.cmd = "cpu" THEN ReactorColKind(SortColumn - 1) ELSE NsColKind(SortColumn - 1)

\* Row a has to come before row b in the requested direction.
StrictlyBefore(a, b) ==
    IF call.args.sort_descending
    THEN KeyLess(SortKind, b[SortColumn], a[SortColumn])
    ELSE KeyLess(SortKind, a[SortColumn], b[SortColumn])

\* The one-to-one assignments of output positions to emitted positions.
Placements(n) ==
    {p \in [1..n -> 1..n] : \A i, j \in 1..n : i # j => p[i] # p[j]}

\* C17: the rows returned by get_sorted_namespaces and get_reactor_data are a
\* permutation of the emitted rows, non-decreasing in the requested column by
\* default and non-increasing when descending is requested; rows with equal
\* keys keep their emission order in both directions.
C17_StableSortBothDirections ==
    SortedView =>
      /\ Len(DataRows) = Len(EmittedRows)
      /\ \E p \in Placements(Len(DataRows)) :
           /\ \A i \in 1..Len(DataRows) : DataRows[i] = EmittedRows[p[i]]
           /\ \A i, j \in 1..Len(DataRows) :
                i < j =>
                  /\ ~StrictlyBefore(DataRows[j], DataRows[i])
                  /\ ~StrictlyBefore(DataRows[i], DataRows[j]) => p[i] < p[j]

\* A descending table of two rows with equal keys, in emission order.
C17_Witness ==
    /\ SortedView /\ call.args.sort_descending
    /\ Len(DataRows) = 2
    /\ DataRows[1][SortColumn] = DataRows[2][SortColumn]
    /\ DataRows = EmittedRows

\* ---------------------------------------------------------- derived values
\* The change of a Counter between its last two updates (the counters of perf
\* hold whole numbers).
Delta(ctr) == ctr.current.n - ctr.last.n

\* perf was just calculated and the rate of the Counter is zero: the interval
\* was 0 or the Counter did not change.
ZeroRate(ctr) == pout.op = "calculate" /\ (pout.delay = 0 \/ Delta(ctr) = 0)

\* C18: calculate never divides by zero; whenever the read ops rate is zero
\* (interval 0, or read_ops unchanged) the read request size and the read wait
\* are 0 whatever they were after the previous calculate; likewise for write.
C18_ZeroRateGivesZero ==
    pout.op = "calculate" =>
      /\ \A f \in {"rareq_sz", "r_await", "wareq_sz", "w_await"} : perf[f].d > 0
      /\ RIsZero(perf.read_ops_rate) <=> ZeroRate(perf.read_ops)
      /\ RIsZero(perf.write_ops_rate) <=> ZeroRate(perf.write_ops)
      /\ ZeroRate(perf.read_ops) => perf.rareq_sz = RZero /\ perf.r_await = RZero
      /\ ZeroRate(perf.write_ops) => perf.wareq_sz = RZero /\ perf.w_await = RZero

\* A calculate over an unchanged read_ops, after a calculate that derived a
\* non-zero read request size and read wait.
C18_Witness ==
    /\ ZeroRate(perf.read_ops) /\ pout.delay > 0
    /\ ~RIsZero(pout.was.rareq_sz) /\ ~RIsZero(pout.was.r_await)
    /\ perf.rareq_sz = RZero /\ perf.r_await = RZero

\* perf was just calculated with a non-zero rate of the Counter.
NonZeroRate(ctr) == pout.op = "calculate" /\ pout.delay # 0 /\ Delta(ctr) # 0

\* C19 as claimed: with a non-zero ops rate the request size in KiB is
\* byte rate / ops rate / 1024, for read and for write.
C19_SizeIsExactQuotient ==
    /\ NonZeroRate(perf.read_ops) =>
         perf.rareq_sz = Rat(Delta(perf.read_bytes), 1024 * Delta(perf.read_ops))
    /\ NonZeroRate(perf.write_ops) =>
         perf.wareq_sz = Rat(Delta(perf.write_bytes), 1024 * Delta(perf.write_ops))

\* `size` is q / 1024 for the whole number q that bytes / ops truncates to
\* (towards zero).
IsTruncatedSize(size, bytes, ops) ==
    /\ (size.n * 1024) % size.d = 0
    /\ LET q == (size.n * 1024) \div size.d
       IN  /\ Abs(q) * Abs(ops) <= Abs(bytes)
           /\ Abs(bytes) < (Abs(q) + 1) * Abs(ops)
           /\ (q > 0 => (bytes > 0) = (ops > 0))
           /\ (q < 0 => (bytes > 0) # (ops > 0))

\* C19 as amended: with a non-zero ops rate the request size in KiB is
\* int(byte rate / ops rate) / 1024, the quotient truncated towards zero to
\* whole bytes; for read and for write.
C19_SizeIsTruncatedQuotient ==
    /\ NonZeroRate(perf.read_ops) =>
         IsTruncatedSize(perf.rareq_sz, Delta(perf.read_bytes), Delta(perf.read_ops))
    /\ NonZeroRate(perf.write_ops) =>
         IsTruncatedSize(perf.wareq_sz, Delta(perf.write_bytes), Delta(perf.write_ops))

\* 3 bytes read in 2 operations: a request size of 1/1024 KiB.
C19_Witness ==
    /\ NonZeroRate(perf.read_ops)
    /\ Delta(perf.read_bytes) = 3 /\ Delta(perf.read_ops) = 2
    /\ perf.rareq_sz = Rat(1, 1024)

\* ------------------------------------------------------------------ Health
\* The Health values assigned in the last command after its initialise
\* returned (initialise makes one assignment when it leaves the collector
\* healthy, and nothing follows an initialise that does not).
AfterInitialise ==
    IF run.ran /\ Healthy(run.hi) THEN SubSeq(hw, 2, Len(hw)) ELSE << >>

\* C20 as claimed: between two initialise calls, once the Health code is
\* non-zero no later assignment sets it back to 0 or changes the message.
C20_FailureHealthIsFinal ==
    \A i, j \in 1..Len(AfterInitialise) :
      (i < j /\ AfterInitialise[i].rc # 0) =>
        /\ AfterInitialise[j].rc # 0
        /\ AfterInitialise[j].msg = AfterInitialise[i].msg

\* The assignment is the one _set_subsystem_and_namespaces makes after its
\* list_subsystems RPC failed.
IsCatalogRewrite(h) ==
    /\ h = Health(-ECONNREFUSED, "Unable to retrieve a list of subsystems")
    /\ Len(trace) > 0
    /\ trace[Len(trace)].m = "list_subsystems" /\ ~trace[Len(trace)].ok

\* Once non-zero, the code stays what it is; no RPC follows the failure; the
\* message changes only by the catalog rewrite, which ends the collection.
FailureCodeIsFinal ==
    /\ \A i, j \in 1..Len(AfterInitialise) :
         (i < j /\ AfterInitialise[i].rc # 0) =>
           /\ AfterInitialise[j].rc = AfterInitialise[i].rc
           /\ \/ AfterInitialise[j].msg = AfterInitialise[i].msg
              \/ /\ j = i + 1 /\ j = Len(AfterInitialise)
                 /\ IsCatalogRewrite(AfterInitialise[j])
    /\ \A i \in 1..Len(trace) : ~trace[i].ok => i = Len(trace)
    /\ Len(hw) > 0 => coll.health = hw[Len(hw)]

\* C20 as amended: between two initialise calls, once the Health code is
\* non-zero no later collector operation changes the code and no RPC follows;
\* the message changes only when _set_subsystem_and_namespaces replaces the
\* message of its failed list_subsystems RPC; a command that does not reach
\* initialise leaves Health as it is.
C20_FailureCodeIsFinal ==
    /\ []FailureCodeIsFinal
    /\ [][~run'.ran => coll'.health = coll.health]_vars

\* A failed list_subsystems RPC whose message was replaced, the code kept.
C20_Witness ==
    /\ Len(AfterInitialise) >= 2
    /\ AfterInitialise[Len(AfterInitialise) - 1] =
         Health(-ECONNREFUSED, "RPC endpoint unavailable at " \o BoundGw(call))
    /\ IsCatalogRewrite(coll.health)
    /\ result.retval = -ECONNREFUSED

\* ------------------------------------------------------- across two commands
\* The last command ran, and every gateway it called and every lookup it made
\* answered with what the command asked for.
AllAnswered ==
    /\ run.ran
    /\ \A i \in 1..Len(trace) : trace[i].ok
    /\ Issued("list_subsystems") =>
         /\ CatalogFetched
         /\ InSeq(NqnList(coll), call.args.subsystem)
    /\ LookedUp("get_gateways_config") => Has(call.gwconf, LookedUpService)
    /\ LookedUp("get_lbg_gws_map") => Len(coll.lbg_to_gateway) > 0

\* C21: a failure does not persist across commands.  Every initialise starts
\* from a fresh Health, so the Health run reads after an initialise whose
\* gateway answered is (0, "get_gateway_info success") whatever the earlier
\* pass left, and a pass in which every gateway and lookup answers ends ready,
\* also after a pass that ended unhealthy.
C21_FailureDoesNotPersist ==
    [][run'.ran =>
         /\ (trace' # << >> /\ trace'[1].ok) =>
              run'.hi = Some(Health(0, "get_gateway_info success"))
         /\ AllAnswered' => Ready(coll')]_vars

\* A cpu pass in which everything answered and that ended ready, on a
\* collector that holds the refused catalog (status above 0) of an earlier io
\* pass, which ended unhealthy.
C21_Witness ==
    /\ AllAnswered /\ Ready(coll) /\ call.cmd = "cpu"
    /\ Len(trace) > 1
    /\ coll.subsystems.some /\ coll.subsystems.v.status > 0

\* The row is what the view emits for one of the collector's entries when its
\* rates are calculated over the interval d.
RowUsesInterval(row, d) ==
    IF call.cmd = "cpu"
    THEN \E gi \in 1..Len(coll.reactor_stats) :
         \E ti \in 1..Len(coll.reactor_stats[gi].v) :
           row = ReactorRow(coll.reactor_stats[gi].k,
                            ReactorCalculate(coll.reactor_stats[gi].v[ti].v, d))
    ELSE \E i \in 1..Len(ActiveNamespaces), di \in 1..Len(coll.iostats) :
           /\ Has(coll.iostats[di].v, ActiveNamespaces[i].bdev_name)
           /\ row = NamespaceRow(ActiveNamespaces[i],
                                 PerfCalculate(Get(coll.iostats[di].v,
                                                   ActiveNamespaces[i].bdev_name), d))

\* Every row of the rendered table was calculated over the collector's delay.
RowsUseDelay ==
    SortedView => \A j \in 1..Len(DataRows) : RowUsesInterval(DataRows[j], coll.delay)

\* C22: delay and timestamp are written by initialise only (delay := now -
\* previous timestamp, timestamp := now); a command that does not get to that
\* point of initialise leaves both as they were; collection and the views
\* leave both unchanged, so every row of a pass is calculated over the one
\* interval that initialise set.
C22_IntervalSetByInitialise ==
    /\ [][IF run'.ran /\ trace' # << >>
          THEN /\ coll'.timestamp = now'
               /\ coll'.delay = RInt(now' - coll.timestamp)
          ELSE /\ coll'.timestamp = coll.timestamp
               /\ coll'.delay = coll.delay]_vars
    /\ []RowsUseDelay

\* A table of two namespaces with non-zero rates, calculated over an interval
\* of 2 seconds.
C22_Witness ==
    /\ SortedView /\ call.cmd = "io"
    /\ coll.delay = RInt(2) /\ coll.timestamp = now
    /\ Len(DataRows) = 2
    /\ \A j \in 1..Len(DataRows) : DataRows[j][3] > 0

\* ------------------------------------------------------------ client handles
\* The cache holds one entry per key, each with the handle that was created
\* for the key, ranked by creation; the client of the collector is the cached
\* handle of the key that initialise asked for.
HandleCacheSound ==
    /\ \A i, j \in 1..Len(coll.clients) :
         i # j => coll.clients[i].k # coll.clients[j].k
    /\ \A i \in 1..Len(coll.clients) :
         /\ coll.clients[i].v.id = i
         /\ coll.clients[i].v.cl = NewClient(coll.clients[i].k[1], coll.clients[i].k[2])
    /\ (run.ran /\ trace # << >>) =>
         /\ Has(coll.clients, <<call.args.group, call.args.server_addr>>)
         /\ coll.client =
              Some(Get(coll.clients, <<call.args.group, call.args.server_addr>>).cl)

\* C23: over any sequence of commands at most one client handle is created per
\* (group, gateway address) key: an entry of the cache is never replaced or
\* removed by a later initialise or collection, and a request for a cached key
\* gets the cached handle.
C23_OneHandlePerKey ==
    /\ [][\A i \in 1..Len(coll.clients) :
            /\ i <= Len(coll'.clients)
            /\ coll'.clients[i] = coll.clients[i]]_vars
    /\ []HandleCacheSound

\* A cpu command bound to the gateway whose handle an earlier io command
\* created: the cache still holds that one handle.
C23_Witness ==
    /\ call.cmd = "cpu" /\ run.ran /\ trace # << >>
    /\ Len(coll.iostats) > 0
    /\ Len(coll.clients) = 1
    /\ coll.clients[1].k = <<"", "gw2">>

\* ------------------------------------------------------------ the first poll
\* The last operation on perf was the first poll of its namespace: the read
\* counters went from the initial 0 to the reported reading.
FirstPoll ==
    /\ pout.op = "poll"
    /\ RIsZero(pout.was.ops) /\ RIsZero(pout.was.bytes)

\* C24: on the first poll of a namespace the emitted row shows read ops rate =
\* reading / delay (as an integer); with delay 1.5 s, 150 read ops and 153600
\* read bytes the row shows r/s 100, rMB/s 0.10 (1024-based) and rareq-sz 1.00.
C24_FirstPollRow ==
    FirstPoll =>
      /\ pout.row[4] = RTrunc(RDiv(RInt(pout.ops), pout.delay))
      /\ (pout.delay = Rat(3, 2) /\ pout.ops = 150 /\ pout.bytes = 153600) =>
           /\ pout.row[4] = 100
           /\ pout.row[5] = <<"0", ".", "1", "0">>
           /\ pout.row[7] = <<"1", ".", "0", "0">>

\* The first poll of the example: 150 ops and 153600 bytes after 1.5 seconds.
C24_Witness ==
    /\ FirstPoll
    /\ pout.delay = Rat(3, 2) /\ pout.ops = 150 /\ pout.bytes = 153600
    /\ perf.read_bytes_rate = RInt(102400)

\* ------------------------------------------------------- the empty cpu view
\* The last command rendered the cpu view (its sort key is a column name).
CpuViewRendered ==
    /\ call.cmd = "cpu" /\ run.ran
    /\ \E i \in 1..Len(views) : views[i] = "get_reactor_data"

\* The collector holds no thread of any gateway.
NoReactorData ==
    \A gi \in 1..Len(coll.reactor_stats) : Len(coll.reactor_stats[gi].v) = 0

\* C25: rendering the cpu view while the collector holds no reactor data
\* raises nothing and succeeds; the output is the header line alone, or nothing
\* when headers are suppressed, followed by the blank line that ends the table
\* (and the end marker that run appends).
C25_EmptyCpuViewRenders ==
    (CpuViewRendered /\ NoReactorData) =>
      /\ run.exc = NoExc /\ ~result.raised /\ result.retval = 0
      /\ result.stdout =
           (IF call.args.no_header THEN << >>
            ELSE <<[kind |-> "row", cols |-> reactors_headers]>>)
           \o <<[kind |-> "blank"], [kind |-> "end"]>>

\* The cpu view of a gateway that reported no thread, rendered without headers.
C25_Witness ==
    /\ CpuViewRendered /\ NoReactorData
    /\ Len(coll.reactor_stats) = 1
    /\ call.args.no_header
    /\ result.stdout = <<[kind |-> "blank"], [kind |-> "end"]>>

\* ------------------------------------------------- writes of a failure path
\* The Health assignments of the last command that carry a failure code.
FailureWrites == {i \in 1..Len(hw) : hw[i].rc # 0}

\* The RPC of initialise or of the subsystem-catalog fetch failed.
RewrittenRpcFailure == Failed("get_gateway_info") \/ Failed("list_subsystems")

\* C26 as claimed: a pass that ends unhealthy has assigned the failure code
\* and message one single time, also when the RPC of initialise or of the
\* subsystem-catalog fetch failed.
C26_FailureAssignedOnce ==
    (run.ran /\ ~Ready(coll)) => Cardinality(FailureWrites) = 1

\* C26 as amended: a pass that ends unhealthy took its failure from one
\* failing operation.  Health is assigned a failure once, and nothing is
\* assigned after it, except when the RPC of initialise or of the catalog
\* fetch failed: then the assignment of _call_grpc is followed by one
\* assignment of the caller, which keeps the code, replaces the message and is
\* the last of the pass.
C26_FailureAssignedByOneOperation ==
    (run.ran /\ ~Ready(coll)) =>
      /\ Cardinality(FailureWrites) = IF RewrittenRpcFailure THEN 2 ELSE 1
      /\ \A i \in FailureWrites :
           \A j \in i..Len(hw) : j \in FailureWrites /\ hw[j].rc = hw[i].rc
      /\ hw[Len(hw)] = coll.health
      /\ RewrittenRpcFailure =>
           /\ hw[Len(hw) - 1] = trace[Len(trace)].health
           /\ hw[Len(hw)].msg # hw[Len(hw) - 1].msg

\* A pass whose list_subsystems RPC failed: two assignments of -ECONNREFUSED,
\* the second with the message of the catalog fetch.
C26_Witness ==
    /\ run.ran /\ ~Ready(coll) /\ Failed("list_subsystems")
    /\ Cardinality(FailureWrites) = 2
    /\ Len(hw) = 3
    /\ hw[3].msg = "Unable to retrieve a list of subsystems"

\* ------------------------------------------------------- owners of the rows
\* The last command rendered the namespaces of the active subsystem while
\* bound to one explicit gateway.
BoundNamespacesView ==
    /\ call.cmd = "io" /\ call.args.server_addr # ""
    /\ \E i \in 1..Len(views) : views[i] = "get_sorted_namespaces"

\* The collector holds PerformanceStats of the daemon for the namespace's
\* device.
HasStatsAt(daemon, ns) ==
    Has(coll.iostats, daemon) /\ Has(Get(coll.iostats, daemon), ns.bdev_name)

\* The row of the namespace with the counters and rates of the daemon's entry.
RowFrom(daemon, ns) ==
    NamespaceRow(ns, Get(Get(coll.iostats, daemon), ns.bdev_name))

\* C27: bound to one explicit gateway, get_sorted_namespaces emits a row
\* exactly for the namespaces whose load-balancing group is the gateway's own
\* group (and whose device has counters), with the counters of the gateway's
\* own daemon entry, whatever lbg_to_gateway holds; in fleet mode every row
\* has the counters of the daemon that lbg_to_gateway maps the namespace's
\* group to.
C27_RowsComeFromOwner ==
    /\ BoundNamespacesView =>
         LET daemon == "nvmeof." \o call.args.server_addr
             own == GwInfo(call.args.server_addr).load_balancing_group
         IN  /\ coll.client.v.daemon_name = daemon
             /\ coll.gw_info.v.load_balancing_group = own
             /\ \A j \in 1..Len(DataRows) :
                  \E i \in 1..Len(ActiveNamespaces) :
                    /\ ActiveNamespaces[i].load_balancing_group = own
                    /\ HasStatsAt(daemon, ActiveNamespaces[i])
                    /\ DataRows[j] = RowFrom(daemon, ActiveNamespaces[i])
             /\ \A i \in 1..Len(ActiveNamespaces) :
                  (/\ ActiveNamespaces[i].load_balancing_group = own
                   /\ HasStatsAt(daemon, ActiveNamespaces[i])) =>
                    \E j \in 1..Len(DataRows) : DataRows[j][1] = ActiveNamespaces[i].nsid
    /\ FleetNamespacesView =>
         \A j \in 1..Len(DataRows) :
           \E i \in 1..Len(ActiveNamespaces) :
             /\ HasOwnerAndStats(ActiveNamespaces[i])
             /\ DataRows[j] =
                  RowFrom(Get(coll.lbg_to_gateway, ActiveNamespaces[i].load_balancing_group),
                          ActiveNamespaces[i])

\* A table rendered while bound to the second gateway by a collector that
\* never fetched a load-balancing mapping: the one namespace of the gateway's
\* group is shown, with non-zero rates.
C27_Witness ==
    /\ BoundNamespacesView
    /\ coll.lbg_to_gateway = EmptyDict
    /\ Len(ActiveNamespaces) = 3
    /\ Len(DataRows) = 1 /\ DataRows[1][1] = 2 /\ DataRows[1][3] > 0

\* ------------------------------------------------------ the catalog cache
\* The command that makes the step ran collect_io_data for a subsystem whose
\* namespace list an earlier collect_io_data had recorded.
CollectsResolved ==
    /\ call'.cmd = "io" /\ run'.ran /\ Healthy(run'.hi)
    /\ Has(coll.namespaces, call'.args.subsystem)

\* The command of the step issued no catalog RPC and left the catalog and the
\* namespace lists as they were.
CatalogUntouched ==
    /\ \A i \in 1..Len(trace') : trace'[i].m \notin {"list_subsystems", "list_namespaces"}
    /\ coll'.subsystems = coll.subsystems
    /\ coll'.namespaces = coll.namespaces

\* C28 as claimed: after a collect_io_data that resolved subsystem X, every
\* later collect_io_data for X issues no list_subsystems and no list_namespaces
\* RPC and leaves `subsystems` and `namespaces[X]` unchanged.
C28_ResolvedNeverFetchedAgain ==
    [][CollectsResolved => CatalogUntouched]_vars

\* C28 as amended: a later collect_io_data for X issues no catalog RPC and
\* leaves `subsystems` and `namespaces` unchanged as long as the collector
\* holds a catalog; when a failed list_subsystems RPC of a pass in between
\* (for another subsystem) left `subsystems` empty, the catalog is fetched
\* again.
C28_CachedWhileCatalogHeld ==
    [][CollectsResolved =>
         IF coll.subsystems.some THEN CatalogUntouched
         ELSE trace'[2].m = "list_subsystems"]_vars

\* A pass for the resolved subsystem that issued no catalog RPC, although the
\* catalog the collector holds is the refused one (status above 0) that a pass
\* for another subsystem left.
C28_Witness ==
    /\ call.cmd = "io" /\ run.ran /\ call.args.subsystem = "nqn1"
    /\ Has(coll.namespaces, "nqn1")
    /\ ~Issued("list_subsystems") /\ Answered("list_namespaces_io_stats")
    /\ coll.subsystems.some /\ coll.subsystems.v.status > 0

\* ------------------------------------------------------- the summary views
\* The last command was an io command whose collection left the collector
\* healthy.
IoCollected == call.cmd = "io" /\ run.ran /\ Healthy(run.hc)

\* ... and it requested the two summary views.
SummariesRequested == IoCollected /\ Len(call.viewed) = 2

\* C29: after a collect_io_data that left the collector healthy, what the
\* summary views read is there (a catalog, the namespace list of the active
\* subsystem, the gateway info), so they cannot fail; the collector after the
\* command is the collector as it was when each of the two views was requested
\* (health, counters, caches, delay and timestamp included), and the summary
\* lines carry [nqn, defined / max] and [server_addr, load-balancing group,
\* subsystems, namespaces] of that collector.
C29_SummariesArePure ==
    /\ IoCollected =>
         /\ coll.subsystems.some
         /\ Has(coll.namespaces, coll.subsystem_nqn)
         /\ coll.gw_info.some
    /\ SummariesRequested =>
         /\ \A i \in 1..Len(call.viewed) : call.viewed[i] = coll
         /\ coll.health = run.hc.v
         /\ run.exc = NoExc /\ ~result.raised /\ result.retval = 0
         /\ \E i \in 1..Len(result.stdout) :
              result.stdout[i] =
                [kind |-> "subsystem_summary",
                 data |-> <<coll.subsystem_nqn,
                            <<Len(ActiveNamespaces), "/", MaxNamespaces(coll)>> >>]
         /\ call.args.server_addr # "" =>
              \E i \in 1..Len(result.stdout) :
                result.stdout[i] =
                  [kind |-> "summary",
                   data |-> <<coll.server_addr, coll.gw_info.v.load_balancing_group,
                              Len(NqnList(coll)),
                              SumNamespaceCount(coll.subsystems.v.subsystems, 1)>>]

\* The summaries of a command bound to a gateway, requested after a view that
\* calculated non-zero rates.
C29_Witness ==
    /\ SummariesRequested /\ call.args.server_addr # ""
    /\ Len(DataRows) = 1 /\ DataRows[1][3] > 0
    /\ coll.health.msg = "list_namespaces_io_stats success"
    /\ MaxNamespaces(coll) = 32

\* -------------------------------------------------- concurrent invocations
\* C30: when two invocations run concurrently on one collector and request a
\* client for the same key, exactly one handle is constructed for the key and
\* both invocations are returned that handle.
C30_OneHandleUnderConcurrency ==
    /\ \A i, j \in 1..Len(race.made) : i # j => race.made[i] # race.made[j]
    /\ \A p, q \in Invocations :
         \A i \in 1..Len(race.inv[p].got) :
           Has(race.inv[q].got, race.inv[p].got[i].k) =>
             Get(race.inv[q].got, race.inv[p].got[i].k) = race.inv[p].got[i].v

\* ------------------------------------------------ the interval of a rate
\* The statistics key of the entry that a row of the last command's table
\* shows (io rows: of a command bound to a gateway).
RowKey(row) ==
    IF call.cmd = "cpu" THEN <<"cpu", row[1], row[2]>>
    ELSE <<"io", call.args.server_addr,
           ActiveNamespaces[CHOOSE i \in 1..Len(ActiveNamespaces) :
                              ActiveNamespaces[i].nsid = row[1]].bdev_name>>

\* When a reading was fetched, at gateways whose counters advance with the
\* clock (busy and read latency: one tick per second).
FetchedAt(reading) ==
    IF call.cmd = "cpu" THEN (reading.busy_secs.n * TickRate) \div reading.busy_secs.d
    ELSE (reading.read_secs.n * TickRate) \div reading.read_secs.d

\* C31: for every row of get_sorted_namespaces or get_reactor_data, after any
\* sequence of passes, the interval its rates are calculated over (the
\* collector's delay) is the time between the two fetches that delivered the
\* Counters' last and current readings.
C31_IntervalIsElapsed ==
    SortedView =>
      \A j \in 1..Len(DataRows) :
        (Has(fed, RowKey(DataRows[j])) /\ Len(Get(fed, RowKey(DataRows[j]))) = 2) =>
          coll.delay = RInt(FetchedAt(Get(fed, RowKey(DataRows[j]))[2])
                            - FetchedAt(Get(fed, RowKey(DataRows[j]))[1]))

\* --------------------------------------------------- rows of earlier passes
\* C32: every row that get_reactor_data returns after a healthy
\* collect_cpu_data belongs to a gateway whose thread statistics were fetched
\* in that same pass: a gateway that the pass did not poll produces no row.
C32_RowsAreOfThisPass ==
    (CpuViewRendered /\ run.rc = 0) =>
      \A j \in 1..Len(DataRows) :
        \E i \in 1..Len(trace) :
          /\ trace[i].m = "get_thread_stats" /\ trace[i].ok
          /\ trace[i].gw = DataRows[j][1]

\* ------------------------------------------------- the catalog that is held
\* C33: whenever collect_io_data leaves the collector healthy, the catalog it
\* holds is an answered list_subsystems response of status 0 that lists the
\* active subsystem, and namespaces has an entry for the active subsystem.
C33_HealthyCatalogIsValid ==
    IoCollected =>
      /\ coll.subsystems.some
      /\ coll.subsystems.v.status = 0
      /\ InSeq(NqnList(coll), coll.subsystem_nqn)
      /\ Has(coll.namespaces, coll.subsystem_nqn)

\* ------------------------------------------------- sorting by a rate column
\* The columns whose values the views format as text with two decimals.
RateColumns ==
    {"rMB/s", "r_await", "rareq-sz", "wMB/s", "w_await", "wareq-sz",
     "Busy Rate%", "Idle Rate%"}

DigitValue(ch) == CHOOSE i \in 0..9 : DigitChar(i) = ch

\* The digits among the first i characters of a formatted value, read as one
\* number: the value's magnitude in hundredths.
RECURSIVE Magnitude(_, _)
Magnitude(text, i) ==
    IF i = 0 THEN 0
    ELSE IF text[i] \in {"-", "."} THEN Magnitude(text, i - 1)
    ELSE 10 * Magnitude(text, i - 1) + DigitValue(text[i])

\* The number that a formatted value denotes, in hundredths.
Hundredths(text) ==
    IF text[1] = "-" THEN 0 - Magnitude(text, Len(text)) ELSE Magnitude(text, Len(text))

\* C34: rows sorted by a rate column that is formatted as text are in the
\* numeric order of the values: non-decreasing, or non-increasing when
\* descending is requested.
C34_RateColumnsSortNumerically ==
    (SortedView /\ call.args.sort_by \in RateColumns) =>
      \A i, j \in 1..Len(DataRows) :
        i < j =>
          IF call.args.sort_descending
          THEN Hundredths(DataRows[i][SortColumn]) >= Hundredths(DataRows[j][SortColumn])
          ELSE Hundredths(DataRows[i][SortColumn]) <= Hundredths(DataRows[j][SortColumn])

====
